---- MODULE Spec2Model ----
(***************************************************************************)
(* Flow orchestrators of dstock-tools: flowBscToHypeCore and               *)
(* flowHypeCoreToBsc.  Each runs three hops; a hop snapshots a balance,    *)
(* spawns a step executor as a child process (runStep) and, outside        *)
(* dry-run, confirms the credit with pollUntil.                            *)
(***************************************************************************)
EXTENDS Integers, Sequences, FiniteSets, TLC

\* ------------------------------------------------------------------------
\* Bounds of the exploration
\* ------------------------------------------------------------------------
\* reads one stand-alone pollUntil call may perform before exploration stops
MaxReads == 4
\* reads one pollUntil call of a flow run may perform before exploration stops
MaxFlowReads == 2
\* largest raw balance a ledger read of a flow run returns
MaxBal == 2
\* longest read latency (in ms) of a stand-alone pollUntil call
MaxLatency == 1
\* reads one pollUntil call of the end-to-end scenario may perform
MaxScenarioReads == 5

\* undefined / null: an absent argument, no balance entry, no value yet
NULL == "null"

Absent == -1

\* ------------------------------------------------------------------------
\* Hop confirmation predicates (the `ok` closures handed to pollUntil)
\* ------------------------------------------------------------------------
\* (bal) => bal > wrapperBalBefore
AnyIncrease(bal, balBefore) == bal > balBefore

\* (bal) => bal >= expectedAtLeast, expectedAtLeast = balBefore + amountWei
expectedAtLeast(balBefore, amountWei) == balBefore + amountWei

AtLeast_Strict(bal, balBefore, amountWei) == bal > expectedAtLeast(balBefore, amountWei)

AtLeast(bal, balBefore, amountWei) == bal >= expectedAtLeast(balBefore, amountWei)

\* const minExpected = (coreAmountWei * 999n) / 1000n   (bigint division)
minExpected_Exact(coreAmountWei) == coreAmountWei

minExpected(coreAmountWei) == (coreAmountWei * 999) \div 1000

\* (bal) => bal >= coreBalBefore + minExpected
ToleranceBanded_NoBand(bal, coreBalBefore, coreAmountWei) ==
    bal >= coreBalBefore + coreAmountWei

ToleranceBanded(bal, coreBalBefore, coreAmountWei) ==
    bal >= coreBalBefore + minExpected(coreAmountWei)

\* the predicate bound into a pollUntil call, by strategy
ok(strat, bal, balBefore, amountWei) ==
    CASE strat = "any-increase" -> AnyIncrease(bal, balBefore)
      [] strat = "at-least"     -> AtLeast(bal, balBefore, amountWei)
      [] strat = "tolerance"    -> ToleranceBanded(bal, balBefore, amountWei)

\* ------------------------------------------------------------------------
\* State
\* ------------------------------------------------------------------------
VARIABLES
    flow,        \* which orchestrator runs, or "pollUntil" for a stand-alone call
    input,       \* command line and environment of the run
    pc,          \* position of main()
    hop,         \* hop (step) main() is working on, 1..3
    snapshot,    \* balance read before the current hop's executor, or Absent
    snapshotHop, \* hop the snapshot was taken for (0: none)
    children,    \* hops whose child process is running
    childExit,   \* what the child reported to runStep: code, signal or spawn error
    invoked,     \* step executors spawned so far, in order
    txs,         \* state-changing transactions / signed actions submitted, in order
    networkUsed, \* TRUE once main() has made a ledger read (RPC or REST)
    exec,        \* per hop, its child process: no, running, exit0, failed
    confirm,     \* per hop, its pollUntil call: no, polling, confirmed, timeout, read error
    exitCode,    \* Absent while running, then 0 or 1
    failure,     \* [reason, hop] of the error main().catch received
    argv,        \* arguments handed to each spawned step executor, in order
    why,         \* per hop, what made its child fail ("" if it did not)
    polls,       \* per hop, reads its pollUntil call made before it returned
    credited,    \* value - baseline of the most recent poll that returned
    reported,    \* balance deltas printed by the "Flow Complete" report
    checked,     \* checks of CLI input, environment and registry main() has made:
                 \* [check, after] with the number of executors invoked before
    prompted,    \* hops whose child asked the operator to type YES
    result,      \* what a stand-alone call returned (script run, pure function)
    ppc,         \* position of pollUntil: idle (no call), read, sleep, returned, thrown
    label,       \* pollUntil's label
    strategy,    \* predicate bound into the pollUntil call
    balBefore,   \* baseline captured by the predicate closure
    amountWei,   \* expected delta captured by the predicate closure
    timeoutMs,   \* opts.timeoutMs
    intervalMs,  \* opts.intervalMs
    elapsed,     \* Date.now() - started
    samples,     \* values read() returned in this call, in order
    sleeps,      \* sleeps completed in this call
    readAt,      \* Date.now() - started at the start of each read, in order
    pending,     \* reads started and not yet settled
    window,      \* reporting window of the read closure's reporter (0: no reporter)
    lastPrintedAt, \* the reporter's lastPrintedAt (a Date.now() value, 0 at first)
    lastSeen,    \* the reporter's lastSeen
    lines,       \* waiting lines the reporter printed: [at, bal], in order
    value,       \* the value pollUntil returned, or Absent
    error        \* the error pollUntil threw, or NoError

flowVars == <<flow, input, checked, pc, hop, snapshot, snapshotHop, children, childExit,
              invoked, txs, networkUsed, exec, confirm, exitCode, failure,
              argv, why, polls, credited, reported,
                   prompted, result>>

pollVars == <<ppc, label, strategy, balBefore, amountWei, timeoutMs, intervalMs,
              elapsed, samples, sleeps, readAt, pending, value, error,
              window, lastPrintedAt, lastSeen, lines>>

vars == <<flow, input, checked, pc, hop, snapshot, snapshotHop, children, childExit,
          invoked, txs, networkUsed, exec, confirm, exitCode, failure,
          argv, why, polls, credited, reported, prompted, result,
          ppc, label, strategy, balBefore, amountWei, timeoutMs, intervalMs,
          elapsed, samples, sleeps, readAt, pending, value, error,
          window, lastPrintedAt, lastSeen, lines>>

\* ------------------------------------------------------------------------
\* pollUntil
\* ------------------------------------------------------------------------
StandAlone == flow = "pollUntil"

\* the run of the end-to-end scenario: 0.5 of the token on every hop, in units
\* of 0.0001
ScenarioAmount == 5000

Scenario == input.amount = ScenarioAmount

\* the runs whose polls are followed to their deadline: the amount, in raw
\* units, that marks them, and the number of sleeps a poll's timeout is cut to
LiveAmount == 7

MaxLiveSleeps == 2

Live == input.amount = LiveAmount

\* values a balance read can return
ReadValues ==
    IF StandAlone THEN {0, 100, 130, 150, 151, 998, 999}
    ELSE IF Scenario THEN {0, 4995, 5000}
    ELSE IF Live THEN {0, LiveAmount}
    ELSE 0..MaxBal

\* time a read() can take; Date.now() is sampled only after the read, so the
\* time by which setTimeout overshoots intervalMs is part of it
ReadLatencies ==
    IF StandAlone THEN 0..MaxLatency ELSE {0, timeoutMs + 1}

ReadCap == IF StandAlone THEN MaxReads
           ELSE IF Scenario THEN MaxScenarioReads
           ELSE IF Live THEN MaxLiveSleeps + 2
           ELSE MaxFlowReads

NoError == [name |-> "", message |-> "", args |-> [label |-> ""]]

\* throw new Error(`Timeout waiting for: ${label}`): the message template and
\* the values interpolated into it
TimeoutError_NoLabel(lbl) ==
    [name |-> "Error", message |-> "Timeout waiting for: ${label}", args |-> [label |-> ""]]

TimeoutError(lbl) ==
    [name |-> "Error", message |-> "Timeout waiting for: ${label}", args |-> [label |-> lbl]]

\* error a balance read rejects with (RPC failure, non-OK HTTP status)
ReadError == [name |-> "Error", message |-> "read failed", args |-> [label |-> ""]]

\* if (Date.now() - started > timeoutMs)
TimedOut_Never(el, tmo) == FALSE

TimedOut_AtDeadline(el, tmo) == el >= tmo

TimedOut(el, tmo) == el > tmo

\* const started = Date.now(); entering while (true)
pollUntil_Call(lbl, strat, before, amount, tmo, interval) ==
    /\ ppc' = "read"
    /\ label' = lbl
    /\ strategy' = strat
    /\ balBefore' = before
    /\ amountWei' = amount
    /\ timeoutMs' = tmo
    /\ intervalMs' = interval
    /\ elapsed' = 0
    /\ samples' = <<>>
    /\ sleeps' = 0
    /\ readAt' = <<>>
    /\ pending' = 0
    /\ value' = Absent
    /\ error' = NoError

\* what one loop iteration does with the value read() resolved to after d ms:
\* return it, throw the timeout, or go to sleep
pollUntil_Step_SleepFirst(v, d) ==
    /\ samples' = Append(samples, v)
    /\ elapsed' = elapsed + d
    /\ IF sleeps = 0 \/ ~ok(strategy, v, balBefore, amountWei)
         THEN /\ ppc' = "sleep" /\ value' = value /\ error' = error
         ELSE /\ ppc' = "returned" /\ value' = v /\ error' = error

pollUntil_Step_TimeoutIsSuccess(v, d) ==
    /\ samples' = Append(samples, v)
    /\ elapsed' = elapsed + d
    /\ IF ok(strategy, v, balBefore, amountWei) \/ TimedOut(elapsed + d, timeoutMs)
         THEN /\ ppc' = "returned" /\ value' = v /\ error' = error
         ELSE /\ ppc' = "sleep" /\ value' = value /\ error' = error

pollUntil_Step(v, d) ==
    /\ samples' = Append(samples, v)
    /\ elapsed' = elapsed + d
    /\ IF ok(strategy, v, balBefore, amountWei)
         THEN /\ ppc' = "returned" /\ value' = v /\ error' = error
         ELSE IF TimedOut(elapsed + d, timeoutMs)
         THEN /\ ppc' = "thrown" /\ value' = value /\ error' = TimeoutError(label)
         ELSE /\ ppc' = "sleep" /\ value' = value /\ error' = error

\* Date.now() when pollUntil is entered
Epoch == 1000000000

\* let lastPrintedAt = 0; let lastSeen = <baseline>; (no reporter: w = 0)
reporter_Init(w, before) ==
    /\ window' = w
    /\ lastPrintedAt' = 0
    /\ lastSeen' = before
    /\ lines' = <<>>

\* const shouldPrint = now - lastPrintedAt > 5_000 || bal !== lastSeen
shouldPrint_Always(now, bal) == TRUE

shouldPrint(now, bal) == now - lastPrintedAt > window \/ bal # lastSeen

\* if (shouldPrint && bal < expectedAtLeast) { lastPrintedAt = now;
\* lastSeen = bal; console.log(...) } return bal
reporter(bal, now) ==
    IF window # 0 /\ shouldPrint(now, bal) /\ bal < expectedAtLeast(balBefore, amountWei)
      THEN /\ lastPrintedAt' = now
           /\ lastSeen' = bal
           /\ lines' = Append(lines, [at |-> now, bal |-> bal, read |-> Len(samples) + 1])
      ELSE UNCHANGED <<lastPrintedAt, lastSeen, lines>>

\* what the core ledger's spot total can be besides a number: null, when the
\* account has no entry for the token (flowBscToHypeCore, step 3)
PollReads ==
    IF flow = "flowBscToHypeCore" /\ hop = 3 THEN ReadValues \cup {Absent} ELSE ReadValues

\* s ? parseUnits(s, tokenDecimals) : 0n
SpotTotalToWei(s) == IF s = Absent THEN 0 ELSE s

\* await read(): the loop calls read() and is suspended until it settles
pollUntil_ReadStart ==
    /\ ppc = "read"
    /\ Len(samples) < ReadCap
    /\ ppc' = "reading"
    /\ readAt' = Append(readAt, elapsed)
    /\ pending' = pending + 1
    /\ UNCHANGED <<label, strategy, balBefore, amountWei, timeoutMs, intervalMs,
                   elapsed, samples, sleeps, value, error,
                   window, lastPrintedAt, lastSeen, lines>>
    /\ UNCHANGED flowVars

\* const value = await read(); if (ok(value)) return value;
\* if (Date.now() - started > timeoutMs) throw ...; await sleep(intervalMs)
pollUntil_Read ==
    /\ ppc = "reading"
    /\ \E r \in PollReads, d \in ReadLatencies :
         /\ reporter(SpotTotalToWei(r), Epoch + elapsed + d)
         /\ pollUntil_Step(SpotTotalToWei(r), d)
    /\ pending' = pending - 1
    /\ UNCHANGED <<label, strategy, balBefore, amountWei, timeoutMs, intervalMs,
                   sleeps, readAt, window>>
    /\ networkUsed' = ~StandAlone
    /\ UNCHANGED <<flow, input, checked, pc, hop, snapshot, snapshotHop, children, childExit,
                   invoked, txs, exec, confirm, exitCode, failure,
                   argv, why, polls, credited, reported,
                   prompted, result>>

\* await read() rejects: the rejection leaves pollUntil at once
pollUntil_ReadThrows_Swallowed ==
    /\ ppc = "reading"
    /\ ppc' = "sleep"
    /\ error' = ReadError
    /\ pending' = pending - 1
    /\ UNCHANGED <<label, strategy, balBefore, amountWei, timeoutMs, intervalMs,
                   elapsed, samples, sleeps, readAt, value,
                   window, lastPrintedAt, lastSeen, lines>>
    /\ networkUsed' = ~StandAlone
    /\ UNCHANGED <<flow, input, checked, pc, hop, snapshot, snapshotHop, children, childExit,
                   invoked, txs, exec, confirm, exitCode, failure,
                   argv, why, polls, credited, reported,
                   prompted, result>>

pollUntil_ReadThrows ==
    /\ ppc = "reading"
    /\ ppc' = "thrown"
    /\ error' = ReadError
    /\ pending' = pending - 1
    /\ UNCHANGED <<label, strategy, balBefore, amountWei, timeoutMs, intervalMs,
                   elapsed, samples, sleeps, readAt, value,
                   window, lastPrintedAt, lastSeen, lines>>
    /\ networkUsed' = ~StandAlone
    /\ UNCHANGED <<flow, input, checked, pc, hop, snapshot, snapshotHop, children, childExit,
                   invoked, txs, exec, confirm, exitCode, failure,
                   argv, why, polls, credited, reported,
                   prompted, result>>

\* await sleep(intervalMs): setTimeout(r, ms) calls back after at least ms
sleep_NoWait ==
    /\ ppc = "sleep"
    /\ ppc' = "read"
    /\ elapsed' = elapsed
    /\ sleeps' = sleeps + 1
    /\ UNCHANGED <<label, strategy, balBefore, amountWei, timeoutMs, intervalMs,
                   samples, readAt, pending, value, error,
                   window, lastPrintedAt, lastSeen, lines>>
    /\ UNCHANGED flowVars

sleep ==
    /\ ppc = "sleep"
    /\ ppc' = "read"
    /\ elapsed' = elapsed + intervalMs
    /\ sleeps' = sleeps + 1
    /\ UNCHANGED <<label, strategy, balBefore, amountWei, timeoutMs, intervalMs,
                   samples, readAt, pending, value, error,
                   window, lastPrintedAt, lastSeen, lines>>
    /\ UNCHANGED flowVars

\* ------------------------------------------------------------------------
\* Stand-alone pollUntil calls: the inputs are drawn from bounded sets
\* ------------------------------------------------------------------------
NoInput ==
    [token |-> NULL, to |-> [account |-> "", form |-> "absent"], amount |-> Absent,
     override |-> [i \in 1..3 |-> Absent], dryRun |-> FALSE, yes |-> FALSE,
     SRC_RPC_URL |-> FALSE, PRIVATE_KEY |-> FALSE]

NoExit == [code |-> Absent, signal |-> NULL, error |-> NULL]

\* no stand-alone call has returned
NoResult == [fn |-> "", in |-> NULL, out |-> NULL]

\* what console.error prints of an error: its message template and the
\* values interpolated into the template
Printed(message, stepName, code, signal, lbl) ==
    [message |-> message, stepName |-> stepName, code |-> code,
     signal |-> signal, label |-> lbl]

NoFailure == [reason |-> NULL, hop |-> 0, err |-> Printed("", "", Absent, NULL, "")]

PollScenarios ==
    { [strat |-> "any-increase", before |-> 0,   amount |-> 0],
      [strat |-> "any-increase", before |-> 100, amount |-> 0],
      [strat |-> "at-least",     before |-> 100, amount |-> 50],
      [strat |-> "at-least",     before |-> 0,   amount |-> 999],
      [strat |-> "tolerance",    before |-> 0,   amount |-> 1000],
      [strat |-> "tolerance",    before |-> 0,   amount |-> 1],
      [strat |-> "tolerance",    before |-> 100, amount |-> 1] }

PollTimeouts == {0, 3}

PollIntervals == {1, 2}

\* reporting window of the at-least polls, in the time unit of PollIntervals
PollWindow == 2

PollInit ==
    /\ flow = "pollUntil"
    /\ input = NoInput
    /\ pc = "pollUntil"
    /\ hop = 0
    /\ snapshot = Absent
    /\ snapshotHop = 0
    /\ children = {}
    /\ childExit = NoExit
    /\ invoked = <<>>
    /\ txs = <<>>
    /\ networkUsed = FALSE
    /\ exec = [i \in 1..3 |-> "no"]
    /\ confirm = [i \in 1..3 |-> "no"]
    /\ exitCode = Absent
    /\ failure = NoFailure
    /\ argv = <<>>
    /\ why = [i \in 1..3 |-> ""]
    /\ polls = [i \in 1..3 |-> 0]
    /\ credited = 0
    /\ reported = <<>>
    /\ prompted = {}
    /\ checked = <<>>
    /\ result = NoResult
    /\ \E s \in PollScenarios, tmo \in PollTimeouts, interval \in PollIntervals :
        /\ ppc = "read"
        /\ label = "credit"
        /\ strategy = s.strat
        /\ balBefore = s.before
        /\ amountWei = s.amount
        /\ timeoutMs = tmo
        /\ intervalMs = interval
        /\ elapsed = 0
        /\ samples = <<>>
        /\ sleeps = 0
        /\ readAt = <<>>
        /\ pending = 0
        /\ value = Absent
        /\ error = NoError
        /\ window = (IF s.strat = "at-least" THEN PollWindow ELSE 0)
        /\ lastPrintedAt = 0
        /\ lastSeen = s.before
        /\ lines = <<>>

PollNext == pollUntil_ReadStart \/ pollUntil_Read \/ pollUntil_ReadThrows \/ sleep

PollSpec == PollInit /\ [][PollNext]_vars

\* ------------------------------------------------------------------------
\* Step executors: what a child process submits and the code it exits with
\* ------------------------------------------------------------------------
\* What a child finds on the ledgers and at its prompt:
\*   preOk            every check and view call before the summary succeeds
\*   balOk            the signer's balance covers the amount
\*   approvalRequired approvalRequired() of the adapter, or "throws"
\*   allowOk          the current allowance covers the amount
\*   needSetCustody, needSetKyc   a compliance flag is required and not set
\*   answerYes        the operator types YES if asked
\*   txOk             the executor's main transaction can be submitted
\*   coreEntry        the core ledger has a balance entry for the token
ChildEnv ==
    [preOk : BOOLEAN, balOk : BOOLEAN, approvalRequired : {"true", "false", "throws"},
     allowOk : BOOLEAN, needSetCustody : BOOLEAN, needSetKyc : BOOLEAN,
     answerYes : BOOLEAN, txOk : BOOLEAN, coreEntry : BOOLEAN]

\* main() returned: the child exits with code 0; asked tells whether it
\* prompted the operator on its way
Done(t, asked) ==
    [txs |-> t, code |-> 0, why |-> "", asked |-> asked, recipient |-> ""]

\* main() threw or called process.exit(1): the child exits with code 1
Failed(t, reason, asked) ==
    [txs |-> t, code |-> 1, why |-> reason, asked |-> asked, recipient |-> ""]

hasFlag(flags, f) == f \in flags

\* confirmOrExit: if (hasFlag("--yes")) return; otherwise the operator is asked
asks(flags) == ~hasFlag(flags, "--yes")

\* ... if (ans !== "YES") { console.log("Cancelled."); process.exit(1) }
confirmOrExit(flags, e) == hasFlag(flags, "--yes") \/ e.answerYes

\* confirmOrExit: if (!hasFlag("--confirm") || hasFlag("--yes")) return; ...
asks_optIn(flags) == hasFlag(flags, "--confirm") /\ ~hasFlag(flags, "--yes")

confirmOrExit_optIn(flags, e) ==
    ~hasFlag(flags, "--confirm") \/ hasFlag(flags, "--yes") \/ e.answerYes

\* setCustody / setKyc, submitted only with --prepare-compliance
prepareCompliance(flags, e) ==
    (IF hasFlag(flags, "--prepare-compliance") /\ e.needSetCustody
       THEN <<"setCustody">> ELSE <<>>)
    \o (IF hasFlag(flags, "--prepare-compliance") /\ e.needSetKyc
       THEN <<"setKyc">> ELSE <<>>)

\* if ((needSetCustody || needSetKyc) && !prepareCompliance) { ...; process.exit(1) }
complianceMissing_Never(flags, e) == FALSE

complianceMissing(flags, e) ==
    (e.needSetCustody \/ e.needSetKyc) /\ ~hasFlag(flags, "--prepare-compliance")

\* bscWrap.ts main()
bscWrap_main(flags, e) ==
    IF ~e.preOk THEN Failed(<<>>, "precheck", FALSE)
    ELSE IF hasFlag(flags, "--dry-run") THEN Done(<<>>, FALSE)
    ELSE IF ~confirmOrExit(flags, e) THEN Failed(<<>>, "declined", asks(flags))
    ELSE IF complianceMissing(flags, e) THEN Failed(<<>>, "compliance", asks(flags))
    ELSE IF ~e.balOk THEN Failed(prepareCompliance(flags, e), "balance", asks(flags))
    ELSE LET t == prepareCompliance(flags, e)
                  \o (IF ~e.allowOk THEN <<"approve">> ELSE <<>>)
         IN  IF e.txOk THEN Done(t \o <<"wrap">>, asks(flags))
                       ELSE Failed(t, "tx", asks(flags))

\* bscToHypeEvm.ts main(): the approve is sent before --dry-run is looked at
bscToHypeEvm_main(flags, e) ==
    IF ~e.preOk THEN Failed(<<>>, "precheck", FALSE)
    ELSE LET t == IF e.approvalRequired = "true" /\ ~e.allowOk
                    THEN <<"approve">> ELSE <<>>
         IN  IF hasFlag(flags, "--dry-run") THEN Done(t, FALSE)
             ELSE IF ~confirmOrExit_optIn(flags, e)
               THEN Failed(t, "declined", asks_optIn(flags))
             ELSE IF e.txOk THEN Done(t \o <<"send">>, asks_optIn(flags))
                            ELSE Failed(t, "tx", asks_optIn(flags))

\* hypeEvmToHypeCore.ts main()
hypeEvmToHypeCore_main(flags, e) ==
    IF ~e.preOk THEN Failed(<<>>, "precheck", FALSE)
    ELSE IF hasFlag(flags, "--dry-run") THEN Done(<<>>, FALSE)
    ELSE IF ~confirmOrExit(flags, e) THEN Failed(<<>>, "declined", asks(flags))
    ELSE IF ~e.balOk THEN Failed(<<>>, "balance", asks(flags))
    ELSE IF e.txOk THEN Done(<<"transfer">>, asks(flags))
                   ELSE Failed(<<>>, "tx", asks(flags))

\* hypeCoreToHypeEvm.ts main(): the spot balance is fetched and checked before
\* --dry-run; if (currentBalance === null) throw new Error("No balance found ...");
\* the spotSend credits the sender's own HyperEVM address (recipient:
\* account.address, the account "a" of PRIVATE_KEY), --to is not read
hypeCoreToHypeEvm_main(flags, e) ==
    IF ~e.preOk THEN Failed(<<>>, "precheck", FALSE)
    ELSE IF ~e.coreEntry THEN Failed(<<>>, "no entry", FALSE)
    ELSE IF ~e.balOk THEN Failed(<<>>, "balance", FALSE)
    ELSE IF hasFlag(flags, "--dry-run") THEN Done(<<>>, FALSE)
    ELSE IF ~confirmOrExit(flags, e) THEN Failed(<<>>, "declined", asks(flags))
    ELSE IF e.txOk
      THEN [Done(<<"spotSend">>, asks(flags)) EXCEPT !.recipient = "a"]
      ELSE Failed(<<>>, "tx", asks(flags))

\* hypeEvmToBsc.ts main(): the balances are checked before --dry-run
hypeEvmToBsc_main(flags, e) ==
    IF ~e.preOk THEN Failed(<<>>, "precheck", FALSE)
    ELSE IF ~e.balOk THEN Failed(<<>>, "balance", FALSE)
    ELSE IF hasFlag(flags, "--dry-run") THEN Done(<<>>, FALSE)
    ELSE IF ~confirmOrExit_optIn(flags, e)
      THEN Failed(<<>>, "declined", asks_optIn(flags))
    ELSE IF e.txOk THEN Done(<<"send">>, asks_optIn(flags))
                   ELSE Failed(<<>>, "tx", asks_optIn(flags))

\* bscUnwrap.ts main(): the wrapper balance is checked before --dry-run
bscUnwrap_main(flags, e) ==
    IF ~e.preOk THEN Failed(<<>>, "precheck", FALSE)
    ELSE IF ~e.balOk THEN Failed(<<>>, "balance", FALSE)
    ELSE IF hasFlag(flags, "--dry-run") THEN Done(<<>>, FALSE)
    ELSE IF ~confirmOrExit_optIn(flags, e)
      THEN Failed(<<>>, "declined", asks_optIn(flags))
    ELSE IF complianceMissing(flags, e)
      THEN Failed(<<>>, "compliance", asks_optIn(flags))
    ELSE LET t == prepareCompliance(flags, e)
         IN  IF e.txOk THEN Done(t \o <<"unwrap">>, asks_optIn(flags))
                       ELSE Failed(t, "tx", asks_optIn(flags))

\* the script a runStep call starts
ExecutorMain(script, flags, e) ==
    CASE script = "bscWrap"           -> bscWrap_main(flags, e)
      [] script = "bscToHypeEvm"      -> bscToHypeEvm_main(flags, e)
      [] script = "hypeEvmToHypeCore" -> hypeEvmToHypeCore_main(flags, e)
      [] script = "hypeCoreToHypeEvm" -> hypeCoreToHypeEvm_main(flags, e)
      [] script = "hypeEvmToBsc"      -> hypeEvmToBsc_main(flags, e)
      [] script = "bscUnwrap"         -> bscUnwrap_main(flags, e)

\* what the script can do, over everything it can find on the ledgers
ExecutorOutcomes(script, flags) ==
    {ExecutorMain(script, flags, e) : e \in ChildEnv}

\* ------------------------------------------------------------------------
\* Command line, environment and token registry of a flow run
\* ------------------------------------------------------------------------
Flows == {"flowBscToHypeCore", "flowHypeCoreToBsc"}

\* an address as typed: the account it names and how its hex digits are cased
Address(account, form) == [account |-> account, form |-> form]

\* viem isAddress: 0x + 40 hex digits, all lower case or with a valid checksum
isAddress(a) == a \in [account : {"a", "b"}, form : {"lower", "checksum"}]

toLowerCase(a) == IF a.form \in {"lower", "checksum", "badsum"}
                    THEN [a EXCEPT !.form = "lower"] ELSE a

\* privateKeyToAccount(privateKey).address: the checksummed address of the key
privateKeyToAccount == Address("a", "checksum")

\* config/tokens.ts TOKENS, keyed by normalizeTokenName
TOKENS == [crcld |-> [name |-> "CRCLd", underlying |-> TRUE, tokenIndex |-> 409]]

normalizeTokenName(t) == IF t = "CRCLd" THEN "crcld" ELSE t

TokenInputs == {NULL, "CRCLd", "crcld", "XYZ"}

\* --to as typed: absent, not an address at all, or an address
ToInputs == {Address("", "absent"), Address("", "malformed"),
             Address("a", "lower"), Address("a", "checksum"),
             Address("a", "badsum"), Address("b", "checksum")}

\* raw units of --amount and of the per-hop overrides
AmountInputs == {Absent, 2}

OverrideInputs == {Absent, 1}

\* command lines and environments: every combination without --yes, and the
\* plain accepted command line with --yes
Inputs ==
    [token : TokenInputs, to : ToInputs, amount : AmountInputs,
     override : [1..3 -> OverrideInputs], dryRun : BOOLEAN, yes : {FALSE},
     SRC_RPC_URL : BOOLEAN, PRIVATE_KEY : BOOLEAN]
    \cup
    [token : {"CRCLd"}, to : {Address("a", "checksum")}, amount : {2},
     override : {[i \in 1..3 |-> Absent]}, dryRun : BOOLEAN, yes : {TRUE},
     SRC_RPC_URL : {TRUE}, PRIVATE_KEY : {TRUE}]

\* getArg("--wrap-amount") ?? amount, and so on for each hop
hopAmount_FlowLevelOnly(in, i) == in.amount

hopAmount(in, i) == IF in.override[i] # Absent THEN in.override[i] ELSE in.amount

\* the checks main() makes before its first network call, in order; the
\* result is NULL when the run is accepted and the error otherwise
Validate_NoAddressCheck(in) ==
    IF in.token = NULL THEN "Missing token"
    ELSE IF in.to.form = "absent" \/ ~isAddress(in.to) THEN "Missing/invalid --to"
    ELSE IF \E i \in 1..3 : hopAmount(in, i) = Absent THEN "Missing --amount"
    ELSE IF ~in.SRC_RPC_URL THEN "Missing SRC_RPC_URL"
    ELSE IF ~in.PRIVATE_KEY THEN "Missing PRIVATE_KEY"
    ELSE IF normalizeTokenName(in.token) \notin DOMAIN TOKENS THEN "Unknown token"
    ELSE NULL

Validate(in) ==
    IF in.token = NULL THEN "Missing token"
    ELSE IF in.to.form = "absent" \/ ~isAddress(in.to) THEN "Missing/invalid --to"
    ELSE IF \E i \in 1..3 : hopAmount(in, i) = Absent THEN "Missing --amount"
    ELSE IF ~in.SRC_RPC_URL THEN "Missing SRC_RPC_URL"
    ELSE IF ~in.PRIVATE_KEY THEN "Missing PRIVATE_KEY"
    ELSE IF normalizeTokenName(in.token) \notin DOMAIN TOKENS THEN "Unknown token"
    ELSE IF toLowerCase(in.to) # toLowerCase(privateKeyToAccount)
      THEN "--to must equal the EVM address of PRIVATE_KEY for this flow."
    ELSE NULL

\* ------------------------------------------------------------------------
\* The hops of the two flows
\* ------------------------------------------------------------------------
Hops == 1..3

Executor(f, i) ==
    IF f = "flowBscToHypeCore"
      THEN <<"bscWrap", "bscToHypeEvm", "hypeEvmToHypeCore">>[i]
      ELSE <<"hypeCoreToHypeEvm", "hypeEvmToBsc", "bscUnwrap">>[i]

\* the confirmation of a hop; "none" where main() does not call pollUntil
Strategy(f, i) ==
    IF f = "flowBscToHypeCore"
      THEN <<"any-increase", "at-least", "tolerance">>[i]
      ELSE <<"at-least", "at-least", "none">>[i]

\* { timeoutMs, intervalMs } of the hop's pollUntil call
TimeoutMs(f, i) ==
    IF f = "flowBscToHypeCore"
      THEN <<2 * 60000, 24 * 60 * 60000, 10 * 60000>>[i]
      ELSE <<5 * 60000, 30 * 60000, 0>>[i]

IntervalMs(f, i) ==
    IF f = "flowBscToHypeCore"
      THEN <<3000, 1000, 5000>>[i]
      ELSE <<2000, 5000, 0>>[i]

\* the timeout handed to pollUntil; in the runs followed to their end it is cut
\* to MaxLiveSleeps intervals
PollTimeoutMs(f, i) ==
    IF Live /\ IntervalMs(f, i) * MaxLiveSleeps < TimeoutMs(f, i)
      THEN IntervalMs(f, i) * MaxLiveSleeps
      ELSE TimeoutMs(f, i)

Label(f, i) ==
    IF f = "flowBscToHypeCore"
      THEN <<"wrapper balance increase after wrap",
             "HyperEVM token balance credited",
             "HyperCore spot credit for tokenIndex=409">>[i]
      ELSE <<"HyperEVM token balance credited from HyperCore",
             "BSC wrapper balance credited from HyperEVM",
             "">>[i]

\* the window of the reporter in the hop's read closure (0: the closure has
\* no reporter)
Window(f, i) ==
    IF f = "flowBscToHypeCore"
      THEN <<0, 5000, 0>>[i]
      ELSE <<5000, 10000, 0>>[i]

\* const dryRun = hasFlag("--dry-run") ? ["--dry-run"] : []
StepFlags(in) == IF in.dryRun THEN {"--dry-run"} ELSE {}

\* const isDryRun = hasFlag("--dry-run")
isDryRun_Never(in) == FALSE

isDryRun(in) == in.dryRun

\* the hops whose executor is handed --to
PassesTo(f, i) ==
    IF f = "flowBscToHypeCore" THEN i = 2 ELSE i \in {2, 3}

\* the args array of the hop's runStep call:
\* [token, "--to", to, "--amount", <hop amount>, ...dryRun]
StepArgs(f, i, in) ==
    [token  |-> in.token,
     to     |-> IF PassesTo(f, i) THEN in.to ELSE Address("", "absent"),
     amount |-> hopAmount(in, i),
     flags  |-> StepFlags(in)]

\* requireToken(token): the registry entry of an accepted token
requireToken(t) == TOKENS[normalizeTokenName(t)]

\* a check main() makes, with the number of executors it has invoked so far
Check(what) == [check |-> what, after |-> Len(invoked)]

\* the checks of the registry main() makes on its way into a hop:
\* flowHypeCoreToBsc, step 3: const underlying = tokenMeta.bsc.underlying;
\* if (!underlying) throw new Error("Missing underlying address ...")
StepChecks(f, i) ==
    IF f = "flowHypeCoreToBsc" /\ i = 3 THEN <<Check("underlying")>> ELSE <<>>

\* what a hop's snapshot read can resolve to; the core ledger's spot total is
\* null when the account has no entry for the token
SnapshotReads(f, i) ==
    IF f = "flowBscToHypeCore" /\ i = 3 THEN ReadValues \cup {Absent} ELSE ReadValues

\* ------------------------------------------------------------------------
\* main() of the flow orchestrators
\* ------------------------------------------------------------------------
\* no pollUntil call is in progress
PollIdle_Primed ==
    /\ ppc' = "idle"
    /\ label' = ""
    /\ strategy' = "none"
    /\ balBefore' = Absent
    /\ amountWei' = Absent
    /\ timeoutMs' = 0
    /\ intervalMs' = 0
    /\ elapsed' = 0
    /\ samples' = <<>>
    /\ sleeps' = 0
    /\ readAt' = <<>>
    /\ pending' = 0
    /\ value' = Absent
    /\ error' = NoError
    /\ window' = 0
    /\ lastPrintedAt' = 0
    /\ lastSeen' = Absent
    /\ lines' = <<>>

\* reject(new Error(`${stepName} failed with exit code ${code}`))
StepFailedError_NoName(stepName, code) ==
    Printed("${stepName} failed with exit code ${code}", "", code, NULL, "")

StepFailedError(stepName, code) ==
    Printed("${stepName} failed with exit code ${code}", stepName, code, NULL, "")

\* reject(new Error(`${stepName} terminated by signal: ${signal}`))
StepSignalError(stepName, signal) ==
    Printed("${stepName} terminated by signal: ${signal}", stepName, Absent, signal, "")

\* child.on("error", reject): the error of spawn itself, as it is
SpawnError == Printed("spawn ENOENT", "", Absent, NULL, "")

\* the rejection of runStep's promise for the way the child ended
runStep_Rejection(stepName, x) ==
    IF x.error # NULL THEN SpawnError
    ELSE IF x.signal # NULL THEN StepSignalError(stepName, x.signal)
    ELSE StepFailedError(stepName, x.code)

\* the error main().catch receives: a validation error, the rejection of
\* runStep, or what pollUntil or a balance read threw
Caught(reason, h) ==
    IF h = 0 THEN Printed(reason, "", Absent, NULL, "")
    ELSE IF reason = "executor failed"
      THEN runStep_Rejection(Executor(flow, h), childExit)
    ELSE IF reason = "confirmation timeout"
      THEN Printed(error.message, "", Absent, NULL, error.args.label)
    ELSE IF reason = "Missing underlying address"
      THEN Printed(reason, "", Absent, NULL, "")
    ELSE Printed(ReadError.message, "", Absent, NULL, "")

\* main().catch((err) => { console.error(err); process.exit(1); })
Abort_ExitZero(reason, h) ==
    /\ pc' = "failed"
    /\ failure' = [reason |-> reason, hop |-> h, err |-> Caught(reason, h)]
    /\ exitCode' = 0

Abort(reason, h) ==
    /\ pc' = "failed"
    /\ failure' = [reason |-> reason, hop |-> h, err |-> Caught(reason, h)]
    /\ exitCode' = 1

\* main() goes on to the next hop, or returns after the last one
Advance_Retry ==
    /\ pc' = "runStep"
    /\ hop' = hop

Advance ==
    IF hop < 3 THEN /\ pc' = "snapshot" /\ hop' = hop + 1
               ELSE /\ pc' = "return" /\ hop' = hop

\* arguments, environment, token registry and the --to == signer check
main_Validate_Reads ==
    /\ pc = "validate"
    /\ IF Validate(input) = NULL
         THEN /\ pc' = "snapshot"
              /\ hop' = 1
              /\ UNCHANGED <<failure, exitCode>>
         ELSE /\ Abort(Validate(input), 0)
              /\ hop' = hop
    /\ networkUsed' = TRUE
    /\ checked' = Append(checked, Check("validation"))
    /\ UNCHANGED <<flow, input, snapshot, snapshotHop, children, childExit,
                   invoked, txs, exec, confirm,
                   argv, why, polls, credited, reported,
                   prompted, result>>
    /\ UNCHANGED pollVars

main_Validate ==
    /\ pc = "validate"
    /\ IF Validate(input) = NULL
         THEN /\ pc' = "snapshot"
              /\ hop' = 1
              /\ UNCHANGED <<failure, exitCode>>
         ELSE /\ Abort(Validate(input), 0)
              /\ hop' = hop
    /\ checked' = Append(checked, Check("validation"))
    /\ UNCHANGED <<flow, input, snapshot, snapshotHop, children, childExit,
                   invoked, txs, networkUsed, exec, confirm,
                   argv, why, polls, credited, reported,
                   prompted, result>>
    /\ UNCHANGED pollVars

\* the balance (and decimals) reads between the previous hop and runStep
main_Snapshot ==
    /\ pc = "snapshot"
    /\ checked' = checked \o StepChecks(flow, hop)
    /\ IF StepChecks(flow, hop) # <<>> /\ ~requireToken(input.token).underlying
         THEN /\ Abort("Missing underlying address", hop)
              /\ UNCHANGED <<snapshot, snapshotHop, networkUsed>>
         ELSE /\ \E r \in SnapshotReads(flow, hop) :
                   snapshot' = SpotTotalToWei(r)
              /\ snapshotHop' = hop
              /\ networkUsed' = TRUE
              /\ pc' = "runStep"
              /\ UNCHANGED <<exitCode, failure>>
    /\ UNCHANGED <<flow, input, hop, children, childExit, invoked, txs,
                   exec, confirm,
                   argv, why, polls, credited, reported,
                   prompted, result>>
    /\ UNCHANGED pollVars

\* one of those reads rejects (RPC failure, non-OK HTTP status)
main_SnapshotThrows ==
    /\ pc = "snapshot"
    /\ StepChecks(flow, hop) # <<>> => requireToken(input.token).underlying
    /\ checked' = checked \o StepChecks(flow, hop)
    /\ networkUsed' = TRUE
    /\ Abort("read error", hop)
    /\ UNCHANGED <<flow, input, hop, snapshot, snapshotHop, children, childExit,
                   invoked, txs, exec, confirm,
                   argv, why, polls, credited, reported,
                   prompted, result>>
    /\ UNCHANGED pollVars

\* runStep: spawn(tsxBin, [scriptAbsPath, ...args]) starts the child
runStep_Spawn ==
    /\ pc = "runStep"
    /\ invoked' = Append(invoked, Executor(flow, hop))
    /\ children' = children \cup {hop}
    /\ argv' = Append(argv, StepArgs(flow, hop, input))
    /\ exec' = [exec EXCEPT ![hop] = "running"]
    /\ pc' = "child"
    /\ UNCHANGED <<flow, input, checked, hop, snapshot, snapshotHop, childExit, txs,
                   networkUsed, confirm, exitCode, failure,
                   why, polls, credited, reported,
                   prompted, result>>
    /\ UNCHANGED pollVars

\* runStep: the process cannot be spawned, the child emits 'error'
runStep_SpawnError ==
    /\ pc = "runStep"
    /\ invoked' = Append(invoked, Executor(flow, hop))
    /\ childExit' = [code |-> Absent, signal |-> NULL, error |-> "spawn"]
    /\ argv' = Append(argv, StepArgs(flow, hop, input))
    /\ exec' = [exec EXCEPT ![hop] = "failed"]
    /\ why' = [why EXCEPT ![hop] = "spawn"]
    /\ pc' = "settle"
    /\ UNCHANGED <<flow, input, checked, hop, snapshot, snapshotHop, children, txs,
                   networkUsed, confirm, exitCode, failure,
                   polls, credited, reported,
                   prompted, result>>
    /\ UNCHANGED pollVars

\* the child runs its main() to the end and exits with its code
child_Exit ==
    /\ pc = "child"
    /\ hop \in children
    /\ \E r \in ExecutorOutcomes(Executor(flow, hop), StepFlags(input)) :
         /\ txs' = txs \o r.txs
         /\ childExit' = [code |-> r.code, signal |-> NULL, error |-> NULL]
         /\ exec' = [exec EXCEPT ![hop] = IF r.code = 0 THEN "exit0" ELSE "failed"]
         /\ why' = [why EXCEPT ![hop] = r.why]
         /\ prompted' = IF r.asked THEN prompted \cup {hop} ELSE prompted
    /\ children' = children \ {hop}
    /\ pc' = "settle"
    /\ UNCHANGED <<flow, input, checked, hop, snapshot, snapshotHop, invoked,
                   networkUsed, confirm, exitCode, failure,
                   argv, polls, credited, reported, result>>
    /\ UNCHANGED pollVars

\* the child is terminated by a signal somewhere along its main()
child_Signal ==
    /\ pc = "child"
    /\ hop \in children
    /\ \E r \in ExecutorOutcomes(Executor(flow, hop), StepFlags(input)) :
         \E k \in 0..Len(r.txs) :
             /\ txs' = txs \o SubSeq(r.txs, 1, k)
             /\ \E a \in {r.asked} \cup (IF k = 0 THEN {FALSE} ELSE {}) :
                   prompted' = IF a THEN prompted \cup {hop} ELSE prompted
    /\ childExit' = [code |-> Absent, signal |-> "SIGTERM", error |-> NULL]
    /\ exec' = [exec EXCEPT ![hop] = "failed"]
    /\ why' = [why EXCEPT ![hop] = "signal"]
    /\ children' = children \ {hop}
    /\ pc' = "settle"
    /\ UNCHANGED <<flow, input, checked, hop, snapshot, snapshotHop, invoked,
                   networkUsed, confirm, exitCode, failure,
                   argv, polls, credited, reported, result>>
    /\ UNCHANGED pollVars

\* runStep's promise: resolve on exit code 0, reject otherwise
runStep_Resolves_AnyExit(x) == x.error = NULL

runStep_Resolves(x) == x.error = NULL /\ x.signal = NULL /\ x.code = 0

\* the 'exit' / 'error' handler settles the promise and main() continues
runStep_Settle ==
    /\ pc = "settle"
    /\ IF runStep_Resolves(childExit)
         THEN /\ pc' = "confirm"
              /\ UNCHANGED <<failure, exitCode>>
         ELSE Abort("executor failed", hop)
    /\ childExit' = NoExit
    /\ UNCHANGED <<flow, input, checked, hop, snapshot, snapshotHop, children, invoked,
                   txs, networkUsed, exec, confirm,
                   argv, why, polls, credited, reported,
                   prompted, result>>
    /\ UNCHANGED pollVars

\* if (!isDryRun) { ... await pollUntil(label, read, ok, opts) ... }
main_Confirm_NoWait ==
    /\ pc = "confirm"
    /\ ~input.dryRun
    /\ Strategy(flow, hop) # "none"
    /\ Advance
    /\ UNCHANGED <<flow, input, checked, snapshot, snapshotHop, children, childExit,
                   invoked, txs, networkUsed, exec, confirm, exitCode, failure,
                   argv, why, polls, credited, reported,
                   prompted, result>>
    /\ UNCHANGED pollVars

main_Confirm_ZeroBaseline ==
    /\ pc = "confirm"
    /\ ~input.dryRun
    /\ Strategy(flow, hop) # "none"
    /\ pollUntil_Call(Label(flow, hop), Strategy(flow, hop), 0,
                      hopAmount(input, hop), PollTimeoutMs(flow, hop),
                      IntervalMs(flow, hop))
    /\ reporter_Init(Window(flow, hop), 0)
    /\ pc' = "polling"
    /\ confirm' = [confirm EXCEPT ![hop] = "polling"]
    /\ UNCHANGED <<flow, input, checked, hop, snapshot, snapshotHop, children, childExit,
                   invoked, txs, networkUsed, exec, exitCode, failure,
                   argv, why, polls, credited, reported,
                   prompted, result>>

main_Confirm ==
    /\ pc = "confirm"
    /\ ~isDryRun(input)
    /\ Strategy(flow, hop) # "none"
    /\ pollUntil_Call(Label(flow, hop), Strategy(flow, hop), snapshot,
                      hopAmount(input, hop), PollTimeoutMs(flow, hop),
                      IntervalMs(flow, hop))
    /\ reporter_Init(Window(flow, hop), snapshot)
    /\ pc' = "polling"
    /\ confirm' = [confirm EXCEPT ![hop] = "polling"]
    /\ UNCHANGED <<flow, input, checked, hop, snapshot, snapshotHop, children, childExit,
                   invoked, txs, networkUsed, exec, exitCode, failure,
                   argv, why, polls, credited, reported,
                   prompted, result>>

\* isDryRun: the if (!isDryRun) block is skipped
main_SkipConfirm ==
    /\ pc = "confirm"
    /\ isDryRun(input)
    /\ Advance
    /\ UNCHANGED <<flow, input, checked, snapshot, snapshotHop, children, childExit,
                   invoked, txs, networkUsed, exec, confirm, exitCode, failure,
                   argv, why, polls, credited, reported,
                   prompted, result>>
    /\ UNCHANGED pollVars

\* flowHypeCoreToBsc, step 3: one read of the underlying balance, then the
\* "Flow Complete" report of delta = underlyingBalAfter - underlyingBalBefore;
\* the delta is printed, not tested
main_FinalCheck ==
    /\ pc = "confirm"
    /\ ~isDryRun(input)
    /\ Strategy(flow, hop) = "none"
    /\ networkUsed' = TRUE
    /\ \E underlyingBalAfter \in ReadValues :
         reported' = Append(reported, underlyingBalAfter - snapshot)
    /\ Advance
    /\ UNCHANGED <<flow, input, checked, snapshot, snapshotHop, children, childExit,
                   invoked, txs, exec, confirm, exitCode, failure,
                   argv, why, polls, credited,
                   prompted, result>>
    /\ UNCHANGED pollVars

main_FinalCheckThrows ==
    /\ pc = "confirm"
    /\ ~isDryRun(input)
    /\ Strategy(flow, hop) = "none"
    /\ networkUsed' = TRUE
    /\ Abort("read error", hop)
    /\ UNCHANGED <<flow, input, checked, hop, snapshot, snapshotHop, children, childExit,
                   invoked, txs, exec, confirm,
                   argv, why, polls, credited, reported,
                   prompted, result>>
    /\ UNCHANGED pollVars

\* await pollUntil(...) resolves: main() goes on
main_PollReturned ==
    /\ pc = "polling"
    /\ ppc = "returned"
    /\ confirm' = [confirm EXCEPT ![hop] = "confirmed"]
    /\ polls' = [polls EXCEPT ![hop] = Len(samples)]
    /\ credited' = value - balBefore
    /\ Advance
    /\ PollIdle_Primed
    /\ UNCHANGED <<flow, input, checked, snapshot, snapshotHop, children, childExit,
                   invoked, txs, networkUsed, exec, exitCode, failure,
                   argv, why, reported,
                   prompted, result>>

\* await pollUntil(...) rejects: the error reaches main().catch
main_PollThrew ==
    /\ pc = "polling"
    /\ ppc = "thrown"
    /\ Abort(IF error = ReadError THEN "read error" ELSE "confirmation timeout", hop)
    /\ confirm' = [confirm EXCEPT ![hop] = IF error = ReadError THEN "read error"
                                                               ELSE "timeout"]
    /\ UNCHANGED <<flow, input, checked, hop, snapshot, snapshotHop, children, childExit,
                   invoked, txs, networkUsed, exec,
                   argv, why, polls, credited, reported,
                   prompted, result>>
    /\ UNCHANGED pollVars

\* main() returns: the process exits with code 0
main_Return ==
    /\ pc = "return"
    /\ pc' = "done"
    /\ exitCode' = 0
    /\ UNCHANGED <<flow, input, checked, hop, snapshot, snapshotHop, children, childExit,
                   invoked, txs, networkUsed, exec, confirm, failure,
                   argv, why, polls, credited, reported,
                   prompted, result>>
    /\ UNCHANGED pollVars

Init ==
    /\ flow \in Flows
    /\ input \in Inputs
    /\ pc = "validate"
    /\ hop = 0
    /\ snapshot = Absent
    /\ snapshotHop = 0
    /\ children = {}
    /\ childExit = NoExit
    /\ invoked = <<>>
    /\ txs = <<>>
    /\ networkUsed = FALSE
    /\ exec = [i \in 1..3 |-> "no"]
    /\ confirm = [i \in 1..3 |-> "no"]
    /\ exitCode = Absent
    /\ failure = NoFailure
    /\ argv = <<>>
    /\ why = [i \in 1..3 |-> ""]
    /\ polls = [i \in 1..3 |-> 0]
    /\ credited = 0
    /\ reported = <<>>
    /\ prompted = {}
    /\ checked = <<>>
    /\ result = NoResult
    /\ ppc = "idle"
    /\ label = ""
    /\ strategy = "none"
    /\ balBefore = Absent
    /\ amountWei = Absent
    /\ timeoutMs = 0
    /\ intervalMs = 0
    /\ elapsed = 0
    /\ samples = <<>>
    /\ sleeps = 0
    /\ readAt = <<>>
    /\ pending = 0
    /\ value = Absent
    /\ error = NoError
    /\ window = 0
    /\ lastPrintedAt = 0
    /\ lastSeen = Absent
    /\ lines = <<>>

Next ==
    \/ main_Validate
    \/ main_Snapshot
    \/ main_SnapshotThrows
    \/ runStep_Spawn
    \/ runStep_SpawnError
    \/ child_Exit
    \/ child_Signal
    \/ runStep_Settle
    \/ main_Confirm
    \/ main_SkipConfirm
    \/ main_FinalCheck
    \/ main_FinalCheckThrows
    \/ pollUntil_ReadStart
    \/ pollUntil_Read
    \/ pollUntil_ReadThrows
    \/ sleep
    \/ main_PollReturned
    \/ main_PollThrew
    \/ main_Return

Spec == Init /\ [][Next]_vars

\* ------------------------------------------------------------------------
\* The end-to-end scenario: an accepted command line with 0.5 on every hop
\* ------------------------------------------------------------------------
ScenarioInputs ==
    [token : {"CRCLd"}, to : {Address("a", "checksum")}, amount : {ScenarioAmount},
     override : {[i \in 1..3 |-> Absent]}, dryRun : BOOLEAN, yes : BOOLEAN,
     SRC_RPC_URL : {TRUE}, PRIVATE_KEY : {TRUE}]

ScenarioInit ==
    /\ flow \in Flows
    /\ input \in ScenarioInputs
    /\ pc = "validate"
    /\ hop = 0
    /\ snapshot = Absent
    /\ snapshotHop = 0
    /\ children = {}
    /\ childExit = NoExit
    /\ invoked = <<>>
    /\ txs = <<>>
    /\ networkUsed = FALSE
    /\ exec = [i \in 1..3 |-> "no"]
    /\ confirm = [i \in 1..3 |-> "no"]
    /\ exitCode = Absent
    /\ failure = NoFailure
    /\ argv = <<>>
    /\ why = [i \in 1..3 |-> ""]
    /\ polls = [i \in 1..3 |-> 0]
    /\ credited = 0
    /\ reported = <<>>
    /\ prompted = {}
    /\ checked = <<>>
    /\ result = NoResult
    /\ ppc = "idle"
    /\ label = ""
    /\ strategy = "none"
    /\ balBefore = Absent
    /\ amountWei = Absent
    /\ timeoutMs = 0
    /\ intervalMs = 0
    /\ elapsed = 0
    /\ samples = <<>>
    /\ sleeps = 0
    /\ readAt = <<>>
    /\ pending = 0
    /\ value = Absent
    /\ error = NoError
    /\ window = 0
    /\ lastPrintedAt = 0
    /\ lastSeen = Absent
    /\ lines = <<>>

ScenarioSpec == ScenarioInit /\ [][Next]_vars

\* ------------------------------------------------------------------------
\* Runs followed to their end: an accepted command line; every poll's timeout
\* is cut to MaxLiveSleeps intervals, so that a poll whose credit never
\* arrives gets to its deadline by sleeping
\* ------------------------------------------------------------------------
LiveInputs ==
    [token : {"CRCLd"}, to : {Address("a", "checksum")}, amount : {LiveAmount},
     override : {[i \in 1..3 |-> Absent]}, dryRun : BOOLEAN, yes : {FALSE},
     SRC_RPC_URL : {TRUE}, PRIVATE_KEY : {TRUE}]

LiveInit ==
    /\ flow \in Flows
    /\ input \in LiveInputs
    /\ pc = "validate"
    /\ hop = 0
    /\ snapshot = Absent
    /\ snapshotHop = 0
    /\ children = {}
    /\ childExit = NoExit
    /\ invoked = <<>>
    /\ txs = <<>>
    /\ networkUsed = FALSE
    /\ exec = [i \in 1..3 |-> "no"]
    /\ confirm = [i \in 1..3 |-> "no"]
    /\ exitCode = Absent
    /\ failure = NoFailure
    /\ argv = <<>>
    /\ why = [i \in 1..3 |-> ""]
    /\ polls = [i \in 1..3 |-> 0]
    /\ credited = 0
    /\ reported = <<>>
    /\ prompted = {}
    /\ checked = <<>>
    /\ result = NoResult
    /\ ppc = "idle"
    /\ label = ""
    /\ strategy = "none"
    /\ balBefore = Absent
    /\ amountWei = Absent
    /\ timeoutMs = 0
    /\ intervalMs = 0
    /\ elapsed = 0
    /\ samples = <<>>
    /\ sleeps = 0
    /\ readAt = <<>>
    /\ pending = 0
    /\ value = Absent
    /\ error = NoError
    /\ window = 0
    /\ lastPrintedAt = 0
    /\ lastSeen = Absent
    /\ lines = <<>>

\* every read returns or throws, every sleep completes, every child exits and
\* main() goes on whenever it can: some step is taken as long as one can be
LiveSpec == LiveInit /\ [][Next]_vars /\ WF_vars(Next)

\* ------------------------------------------------------------------------
\* Stand-alone runs of the step scripts: a command line and what the script
\* meets on the chains are drawn from bounded sets
\* ------------------------------------------------------------------------
Scripts == {"bscWrap", "bscToHypeEvm", "hypeEvmToHypeCore",
            "hypeCoreToHypeEvm", "hypeEvmToBsc", "bscUnwrap"}

\* options of the command line; "--to" stands for --to <address of another account>
ScriptFlags == {"--dry-run", "--yes", "--confirm", "--prepare-compliance", "--to"}

\* no flow is running
NoRun ==
    /\ input = NoInput
    /\ hop = 0
    /\ snapshot = Absent
    /\ snapshotHop = 0
    /\ children = {}
    /\ childExit = NoExit
    /\ networkUsed = FALSE
    /\ exec = [i \in 1..3 |-> "no"]
    /\ confirm = [i \in 1..3 |-> "no"]
    /\ exitCode = Absent
    /\ failure = NoFailure
    /\ why = [i \in 1..3 |-> ""]
    /\ polls = [i \in 1..3 |-> 0]
    /\ credited = 0
    /\ reported = <<>>
    /\ prompted = {}
    /\ checked = <<>>

\* no pollUntil call is running
NoPoll ==
    /\ ppc = "idle"
    /\ label = ""
    /\ strategy = "none"
    /\ balBefore = Absent
    /\ amountWei = Absent
    /\ timeoutMs = 0
    /\ intervalMs = 0
    /\ elapsed = 0
    /\ samples = <<>>
    /\ sleeps = 0
    /\ readAt = <<>>
    /\ pending = 0
    /\ value = Absent
    /\ error = NoError
    /\ window = 0
    /\ lastPrintedAt = 0
    /\ lastSeen = Absent
    /\ lines = <<>>

ScriptInit ==
    /\ flow = "script"
    /\ pc = "script"
    /\ \E script \in Scripts, flags \in SUBSET ScriptFlags :
         /\ invoked = <<script>>
         /\ argv = <<[token  |-> "CRCLd",
                      to     |-> IF "--to" \in flags THEN Address("b", "checksum")
                                                     ELSE Address("", "absent"),
                      amount |-> 1,
                      flags  |-> flags]>>
    /\ txs = <<>>
    /\ result = NoResult
    /\ NoRun
    /\ NoPoll

\* main() of the script runs to its end: the process exits with its code
script_Main ==
    /\ pc = "script"
    /\ \E e \in ChildEnv :
         LET r == ExecutorMain(invoked[1], argv[1].flags, e)
         IN  /\ result' = [fn |-> invoked[1], in |-> e, out |-> r]
             /\ txs' = r.txs
             /\ exitCode' = r.code
             /\ prompted' = IF r.asked THEN {1} ELSE {}
    /\ pc' = "exited"
    /\ UNCHANGED <<flow, input, checked, hop, snapshot, snapshotHop, children, childExit,
                   invoked, networkUsed, exec, confirm, failure,
                   argv, why, polls, credited, reported>>
    /\ UNCHANGED pollVars

ScriptNext == script_Main

ScriptSpec == ScriptInit /\ [][ScriptNext]_vars

\* ------------------------------------------------------------------------
\* toAssetBridgeAddress: token indices are drawn from a bounded set; an index
\* is kept in two 16-bit halves so that the whole range up to 2^32 - 1 is there
\* ------------------------------------------------------------------------
MaxTokenIndex == 17

Wide(hi, lo) == [hi |-> hi, lo |-> lo]

TokenIndexes ==
    {Wide(0, lo) : lo \in 0..MaxTokenIndex}
    \cup {Wide(0, 255), Wide(0, 256), Wide(0, 409), Wide(0, 4095), Wide(0, 4096),
          Wide(0, 65535), Wide(1, 0), Wide(1, 409), Wide(409, 0), Wide(32767, 65535),
          Wide(32768, 0), Wide(65535, 65535)}

HexDigits == <<"0", "1", "2", "3", "4", "5", "6", "7",
               "8", "9", "a", "b", "c", "d", "e", "f">>

\* n / 16 and n % 16 on the two halves
Div16(n) == Wide(n.hi \div 16, (n.hi % 16) * 4096 + n.lo \div 16)

Mod16(n) == n.lo % 16

RECURSIVE toString16(_)
\* Number(tokenIndex).toString(16)
toString16(n) ==
    IF n.hi = 0 /\ n.lo < 16 THEN <<HexDigits[n.lo + 1]>>
    ELSE Append(toString16(Div16(n)), HexDigits[Mod16(n) + 1])

RECURSIVE padStart(_, _, _)
\* String.prototype.padStart(targetLength, padString) for a one-character pad
padStart_NoPad(str, targetLength, padString) == str

padStart(str, targetLength, padString) ==
    IF Len(str) >= targetLength THEN str
    ELSE padStart(<<padString>> \o str, targetLength, padString)

\* `${addressPrefix}${indexAsHex.padStart(addressLengthWithoutPrefix, "0")}`
toAssetBridgeAddress(tokenIndex) ==
    LET addressLength == 42
        addressPrefix == <<"0", "x", "2">>
        indexAsHex == toString16(tokenIndex)
        addressLengthWithoutPrefix == addressLength - Len(addressPrefix)
    IN  addressPrefix \o padStart(indexAsHex, addressLengthWithoutPrefix, "0")

BridgeInit ==
    /\ flow = "toAssetBridgeAddress"
    /\ pc = "call"
    /\ \E i \in TokenIndexes, j \in TokenIndexes :
         result = [fn |-> "toAssetBridgeAddress", in |-> <<i, j>>, out |-> NULL]
    /\ invoked = <<>>
    /\ argv = <<>>
    /\ txs = <<>>
    /\ NoRun
    /\ NoPoll

\* the function is applied to both indices
toAssetBridgeAddress_Call ==
    /\ pc = "call"
    /\ result' = [result EXCEPT !.out = <<toAssetBridgeAddress(result.in[1]),
                                           toAssetBridgeAddress(result.in[2])>>]
    /\ pc' = "returned"
    /\ UNCHANGED <<flow, input, checked, hop, snapshot, snapshotHop, children, childExit,
                   invoked, txs, networkUsed, exec, confirm, exitCode, failure,
                   argv, why, polls, credited, reported, prompted>>
    /\ UNCHANGED pollVars

BridgeNext == toAssetBridgeAddress_Call

BridgeSpec == BridgeInit /\ [][BridgeNext]_vars

\* ------------------------------------------------------------------------
\* Stand-alone runStep calls: the step and the events its child emits are
\* drawn from bounded sets; the child may emit 'error' and 'exit' both, in
\* either order
\* ------------------------------------------------------------------------
\* new Promise<void>((resolve, reject) => { ... }) before any handler has run
Pending == [state |-> "pending", err |-> NoFailure.err, settled |-> 0]

\* resolve() / reject(err) called for the event x: a promise that is already
\* settled stays as it is
settle_LastWins(p, stepName, x) ==
    IF runStep_Resolves(x)
      THEN [state |-> "resolved", err |-> NoFailure.err, settled |-> p.settled + 1]
      ELSE [state |-> "rejected", err |-> runStep_Rejection(stepName, x),
            settled |-> p.settled + 1]

settle(p, stepName, x) ==
    IF p.state # "pending" THEN p
    ELSE IF runStep_Resolves(x)
      THEN [state |-> "resolved", err |-> NoFailure.err, settled |-> p.settled + 1]
      ELSE [state |-> "rejected", err |-> runStep_Rejection(stepName, x),
            settled |-> p.settled + 1]

\* what child.on("exit", (code, signal) => ...) can be called with
ExitEvents ==
    {[code |-> c, signal |-> NULL, error |-> NULL] : c \in {0, 1}}
    \cup {[code |-> Absent, signal |-> g, error |-> NULL] : g \in {"SIGTERM", "SIGKILL"}}

\* what child.on("error", ...) can be called with
ErrorEvents == {[code |-> Absent, signal |-> NULL, error |-> "spawn"]}

RunStepInit ==
    /\ flow = "runStep"
    /\ pc = "runStep"
    /\ \E script \in Scripts, flags \in SUBSET {"--dry-run"} :
         /\ invoked = <<script>>
         /\ argv = <<[token  |-> "CRCLd", to |-> Address("", "absent"),
                      amount |-> 1, flags |-> flags]>>
    /\ txs = <<>>
    /\ result = NoResult
    /\ NoRun
    /\ NoPoll

\* const child = spawn(...); child.on("error", reject); child.on("exit", ...):
\* the promise is pending and main() awaits it
runStep_Call ==
    /\ pc = "runStep"
    /\ pc' = "child"
    /\ result' = [fn |-> "runStep", in |-> <<>>, out |-> Pending]
    /\ UNCHANGED <<flow, input, checked, hop, snapshot, snapshotHop, children, childExit,
                   invoked, txs, networkUsed, exec, confirm, exitCode, failure,
                   argv, why, polls, credited, reported, prompted>>
    /\ UNCHANGED pollVars

\* events the child has not emitted yet: each of 'error' and 'exit' at most once
NotEmitted(events) ==
    (IF \E k \in 1..Len(events) : events[k].error # NULL THEN {} ELSE ErrorEvents)
    \cup (IF \E k \in 1..Len(events) : events[k].error = NULL THEN {} ELSE ExitEvents)

\* the child emits 'error' or 'exit' and the handler registered for it runs
child_Emit ==
    /\ pc \in {"child", "resolved", "rejected"}
    /\ \E x \in NotEmitted(result.in) :
         /\ result' = [result EXCEPT !.in = Append(result.in, x),
                                      !.out = settle(result.out, invoked[1], x)]
         /\ childExit' = x
    /\ UNCHANGED <<flow, input, checked, pc, hop, snapshot, snapshotHop, children,
                   invoked, txs, networkUsed, exec, confirm, exitCode, failure,
                   argv, why, polls, credited, reported, prompted>>
    /\ UNCHANGED pollVars

\* await new Promise(...): runStep returns or throws once the promise is settled
runStep_Awaited ==
    /\ pc = "child"
    /\ result.out.state # "pending"
    /\ pc' = result.out.state
    /\ UNCHANGED <<flow, input, checked, hop, snapshot, snapshotHop, children, childExit,
                   invoked, txs, networkUsed, exec, confirm, exitCode, failure,
                   argv, why, polls, credited, reported, prompted, result>>
    /\ UNCHANGED pollVars

RunStepNext == runStep_Call \/ child_Emit \/ runStep_Awaited

RunStepSpec == RunStepInit /\ [][RunStepNext]_vars

\* ------------------------------------------------------------------------
\* bscToHypeEvm step by step, from the approvalRequired read to the receipt
\* of the send: what the view calls return, whether a write or a receipt wait
\* throws and what the operator answers are drawn at each step
\* ------------------------------------------------------------------------
MaxAllowance == 2

\* what main() has read and awaited so far
NoSend == [approvalRead |-> NULL, approvalRequired |-> FALSE,
           allowance |-> Absent, receipts |-> <<>>]

\* if (approvalRequired) { ...; if (allowance < amountLD) { approve } }
needsApprove_AtMost(allowance, amountLD) == allowance <= amountLD

needsApprove(allowance, amountLD) == allowance < amountLD

\* the variables main() of bscToHypeEvm leaves alone
oftFrame == <<flow, input, checked, hop, snapshot, snapshotHop, children, childExit,
              invoked, networkUsed, exec, confirm, failure,
              argv, why, polls, credited, reported>>

OftSendInit ==
    /\ flow = "bscToHypeEvm"
    /\ pc = "approvalRequired"
    /\ invoked = <<"bscToHypeEvm">>
    /\ \E flags \in SUBSET {"--dry-run", "--yes", "--confirm"} :
         argv = <<[token  |-> "CRCLd", to |-> Address("", "absent"),
                   amount |-> 1, flags |-> flags]>>
    /\ txs = <<>>
    /\ result = [fn |-> "bscToHypeEvm", in |-> NULL, out |-> NoSend]
    /\ NoRun
    /\ NoPoll

\* main() throws: main().catch prints the error and exits with code 1
main_Throws ==
    /\ pc' = "exited"
    /\ exitCode' = 1

\* let approvalRequired = false; try { approvalRequired = await readContract(
\* approvalRequired) } catch { approvalRequired = false }
main_ApprovalRequired ==
    /\ pc = "approvalRequired"
    /\ \E r \in {"true", "false", "throws"} :
         /\ result' = [result EXCEPT !.out.approvalRead = r,
                                      !.out.approvalRequired = (r = "true")]
         /\ pc' = IF r = "true" THEN "allowance" ELSE "quoteSend"
    /\ UNCHANGED <<txs, exitCode, prompted>>
    /\ UNCHANGED oftFrame
    /\ UNCHANGED pollVars

\* const allowance = await readContract(allowance); if (allowance < amountLD)
main_Allowance ==
    /\ pc = "allowance"
    /\ \E a \in 0..MaxAllowance :
         /\ result' = [result EXCEPT !.out.allowance = a]
         /\ pc' = IF needsApprove(a, argv[1].amount) THEN "approve" ELSE "quoteSend"
    /\ UNCHANGED <<txs, exitCode, prompted>>
    /\ UNCHANGED oftFrame
    /\ UNCHANGED pollVars

\* const approveHash = await walletClient.writeContract(approve)
main_Approve ==
    /\ pc = "approve"
    /\ txs' = Append(txs, "approve")
    /\ pc' = "awaitApprove"
    /\ UNCHANGED <<result, exitCode, prompted>>
    /\ UNCHANGED oftFrame
    /\ UNCHANGED pollVars

\* await publicClient.waitForTransactionReceipt({ hash: approveHash })
main_ApproveReceipt ==
    /\ pc = "awaitApprove"
    /\ result' = [result EXCEPT !.out.receipts = Append(result.out.receipts, "approve")]
    /\ pc' = "quoteSend"
    /\ UNCHANGED <<txs, exitCode, prompted>>
    /\ UNCHANGED oftFrame
    /\ UNCHANGED pollVars

\* const msgFee = await readContract(quoteSend); if (hasFlag("--dry-run")) return
main_QuoteSend ==
    /\ pc = "quoteSend"
    /\ IF hasFlag(argv[1].flags, "--dry-run")
         THEN /\ pc' = "exited" /\ exitCode' = 0
         ELSE /\ pc' = "confirm" /\ exitCode' = exitCode
    /\ UNCHANGED <<txs, result, prompted>>
    /\ UNCHANGED oftFrame
    /\ UNCHANGED pollVars

\* await confirmOrExit(summary): process.exit(1) unless the answer is YES
main_ConfirmOrExit ==
    /\ pc = "confirm"
    /\ \E answerYes \in BOOLEAN :
         IF ~asks_optIn(argv[1].flags)
           THEN /\ pc' = "send" /\ UNCHANGED <<exitCode, prompted>>
           ELSE /\ prompted' = {1}
                /\ IF answerYes THEN /\ pc' = "send" /\ exitCode' = exitCode
                                 ELSE main_Throws
    /\ UNCHANGED <<txs, result>>
    /\ UNCHANGED oftFrame
    /\ UNCHANGED pollVars

\* const hash = await walletClient.writeContract(send)
main_Send ==
    /\ pc = "send"
    /\ txs' = Append(txs, "send")
    /\ pc' = "awaitSend"
    /\ UNCHANGED <<result, exitCode, prompted>>
    /\ UNCHANGED oftFrame
    /\ UNCHANGED pollVars

\* const receipt = await waitForTransactionReceipt({ hash }); main() returns
main_SendReceipt ==
    /\ pc = "awaitSend"
    /\ result' = [result EXCEPT !.out.receipts = Append(result.out.receipts, "send")]
    /\ pc' = "exited"
    /\ exitCode' = 0
    /\ UNCHANGED <<txs, prompted>>
    /\ UNCHANGED oftFrame
    /\ UNCHANGED pollVars

\* a view call, a write or a receipt wait outside the try block rejects
main_CallThrows ==
    /\ pc \in {"allowance", "approve", "awaitApprove", "quoteSend", "send", "awaitSend"}
    /\ main_Throws
    /\ UNCHANGED <<txs, result, prompted>>
    /\ UNCHANGED oftFrame
    /\ UNCHANGED pollVars

OftSendNext ==
    \/ main_ApprovalRequired
    \/ main_Allowance
    \/ main_Approve
    \/ main_ApproveReceipt
    \/ main_QuoteSend
    \/ main_ConfirmOrExit
    \/ main_Send
    \/ main_SendReceipt
    \/ main_CallThrows

OftSendSpec == OftSendInit /\ [][OftSendNext]_vars

\* ------------------------------------------------------------------------
\* hypeEvmToHypeCore with its checks told apart: the environment, the command
\* line, the chain id the RPC reports, the balance read and the operator's
\* answer are drawn from bounded sets
\* ------------------------------------------------------------------------
\* a raw ERC20 address given where the token name goes
RawTokenAddress == "0xOFT"

isAddressText(t) == t = RawTokenAddress

\* if (chainId !== 999) throw new Error(`Unexpected chainId=...`)
isHyperEvm_AnyChain(chainId) == TRUE

isHyperEvm(chainId) == chainId = 999

TransferInputs ==
    [PRIVATE_KEY : BOOLEAN, token : TokenInputs \cup {RawTokenAddress},
     amount : {Absent, 1}, chainId : {999, 998, 1},
     flags : SUBSET {"--dry-run", "--yes"}, answerYes : BOOLEAN,
     balance : 0..MaxBal, readsOk : BOOLEAN, txOk : BOOLEAN]

\* everything main() throws on before it builds the summary, in order
hypeEvmToHypeCore_checks(in) ==
    /\ in.PRIVATE_KEY
    /\ in.token # NULL
    /\ in.amount # Absent
    /\ isHyperEvm(in.chainId)
    /\ ~isAddressText(in.token)
    /\ normalizeTokenName(in.token) \in DOMAIN TOKENS
    /\ in.readsOk

\* what main() meets, as the executor sees it
hypeEvmToHypeCore_env(in) ==
    [preOk |-> hypeEvmToHypeCore_checks(in), balOk |-> in.balance >= in.amount,
     approvalRequired |-> "false", allowOk |-> TRUE,
     needSetCustody |-> FALSE, needSetKyc |-> FALSE,
     answerYes |-> in.answerYes, txOk |-> in.txOk, coreEntry |-> TRUE]

TransferInit ==
    /\ flow = "hypeEvmToHypeCore"
    /\ pc = "script"
    /\ invoked = <<"hypeEvmToHypeCore">>
    /\ \E in \in TransferInputs :
         /\ argv = <<[token |-> in.token, to |-> Address("", "absent"),
                      amount |-> in.amount, flags |-> in.flags]>>
         /\ result = [fn |-> "hypeEvmToHypeCore", in |-> in, out |-> NULL]
    /\ txs = <<>>
    /\ NoRun
    /\ NoPoll

\* main() of hypeEvmToHypeCore runs to its end
hypeEvmToHypeCore_Run ==
    /\ pc = "script"
    /\ LET r == hypeEvmToHypeCore_main(argv[1].flags, hypeEvmToHypeCore_env(result.in))
       IN  /\ result' = [result EXCEPT !.out = r]
           /\ txs' = r.txs
           /\ exitCode' = r.code
           /\ prompted' = IF r.asked THEN {1} ELSE {}
    /\ pc' = "exited"
    /\ UNCHANGED <<flow, input, checked, hop, snapshot, snapshotHop, children, childExit,
                   invoked, networkUsed, exec, confirm, failure,
                   argv, why, polls, credited, reported>>
    /\ UNCHANGED pollVars

TransferNext == hypeEvmToHypeCore_Run

TransferSpec == TransferInit /\ [][TransferNext]_vars

\* ------------------------------------------------------------------------
\* getPositionalArg: command lines are drawn as sequences of at most MaxArgs
\* words, process.argv.slice(2)
\* ------------------------------------------------------------------------
MaxArgs == 3

BooleanFlags == {"--dry-run", "--yes"}

ValueFlags == {"--amount"}

\* the words of a command line: a token name, flags, a flag's value, and the
\* empty string
ArgWords == {"CRCLd", "1", ""} \cup BooleanFlags \cup ValueFlags

\* a.startsWith("-")
startsWithDash(a) == a \in BooleanFlags \cup ValueFlags

\* for (let i = 0; i < argv.length; i++) { const a = argv[i]; if (!a) continue;
\* if (a.startsWith("-")) { const next = argv[i + 1];
\* if (next && !next.startsWith("-")) i++; continue } positionals.push(a) }
\* from position i on (positions counted from 1)
RECURSIVE positionals(_, _)
positionals(args, i) ==
    IF i > Len(args) THEN <<>>
    ELSE IF args[i] = "" THEN positionals(args, i + 1)
    ELSE IF startsWithDash(args[i])
      THEN IF i + 1 <= Len(args) /\ args[i + 1] # "" /\ ~startsWithDash(args[i + 1])
             THEN positionals(args, i + 2)
             ELSE positionals(args, i + 1)
    ELSE <<args[i]>> \o positionals(args, i + 1)

\* return positionals[index]: undefined when there is no such element
getPositionalArg(args, index) ==
    IF index + 1 <= Len(positionals(args, 1))
      THEN positionals(args, 1)[index + 1]
      ELSE NULL

ArgsInit ==
    /\ flow = "getPositionalArg"
    /\ pc = "call"
    /\ invoked = <<>>
    /\ argv = <<>>
    /\ txs = <<>>
    /\ \E len \in 0..MaxArgs, index \in 0..1 :
         \E args \in [1..len -> ArgWords] :
             result = [fn |-> "getPositionalArg",
                       in |-> [argv |-> args, index |-> index], out |-> NULL]
    /\ NoRun
    /\ NoPoll

getPositionalArg_Call ==
    /\ pc = "call"
    /\ result' = [result EXCEPT !.out = getPositionalArg(result.in.argv, result.in.index)]
    /\ pc' = "returned"
    /\ UNCHANGED <<flow, input, checked, hop, snapshot, snapshotHop, children, childExit,
                   invoked, txs, networkUsed, exec, confirm, exitCode, failure,
                   argv, why, polls, credited, reported, prompted>>
    /\ UNCHANGED pollVars

ArgsNext == getPositionalArg_Call

ArgsSpec == ArgsInit /\ [][ArgsNext]_vars

\* ------------------------------------------------------------------------
\* Properties
\* ------------------------------------------------------------------------
Last(q) == q[Len(q)]

\* C1 (fail-stop): once the step executor of hop i has failed (non-zero exit,
\* signal or spawn error) or the confirmation poll of hop i has timed out,
\* exactly the executors of hops 1..i have been invoked, none is running, and
\* no executor of a later hop is ever started.
C1_FailStop ==
    \A i \in Hops :
        (exec[i] = "failed" \/ confirm[i] = "timeout") =>
            /\ Len(invoked) = i
            /\ \A k \in 1..i : invoked[k] = Executor(flow, k)
            /\ \A j \in Hops : j > i => exec[j] = "no" /\ confirm[j] = "no"
            /\ children = {}

C1_Witness ==
    /\ pc = "failed"
    /\ exec[1] = "exit0"
    /\ confirm[1] = "confirmed"
    /\ exec[2] = "exit0"
    /\ confirm[2] = "timeout"
    /\ txs # <<>>

\* C2 (destination/account validation): when --to names another account than
\* the one derived from PRIVATE_KEY, the run has been rejected (error, exit
\* code 1, no hop) without any ledger read and without any executor; a run
\* that got past validation has --to equal to the signer's address.
C2_ToMustBeSigner ==
    (pc # "validate" /\ input.to.account # privateKeyToAccount.account) =>
        /\ pc = "failed"
        /\ exitCode = 1
        /\ failure.hop = 0
        /\ ~networkUsed
        /\ invoked = <<>>
        /\ txs = <<>>

C2_Witness ==
    /\ pc = "failed"
    /\ input.to = Address("b", "checksum")
    /\ failure.reason = "--to must equal the EVM address of PRIVATE_KEY for this flow."

\* C3 (dry-run never mutates ledger state): in a run with --dry-run no
\* state-changing transaction or signed action is submitted.
C3_DryRunSubmitsNothing ==
    input.dryRun => txs = <<>>

\* C4 (hops are sequential): at most one child process runs at a time, and the
\* snapshot and the executor of hop i+1 come only after the executor of hop i
\* exited with code 0 and, outside dry-run, hop i's poll returned.
C4_Sequential ==
    /\ Cardinality(children) <= 1
    /\ \A i \in 1..2 :
        (snapshotHop >= i + 1 \/ exec[i + 1] # "no") =>
            /\ exec[i] = "exit0"
            /\ input.dryRun \/ confirm[i] = "confirmed"

C4_Witness ==
    /\ ~input.dryRun
    /\ hop = 3
    /\ children = {3}

\* C5 (snapshot ordering): the baseline of a hop is read before the hop's
\* executor is invoked and after the previous hop was confirmed; every poll
\* read comes after the executor exited; and the predicate of the hop's poll
\* is bound to the baseline read for that very hop.
C5_SnapshotOrdering ==
    /\ \A i \in Hops : exec[i] # "no" => snapshotHop >= i
    /\ \A i \in 2..3 : (snapshotHop >= i /\ ~input.dryRun) => confirm[i - 1] = "confirmed"
    /\ (~StandAlone /\ ppc # "idle") =>
          /\ exec[hop] = "exit0"
          /\ children = {}
          /\ snapshotHop = hop
          /\ balBefore = snapshot

C5_Witness ==
    /\ hop = 2
    /\ ppc = "returned"
    /\ snapshot = 1
    /\ Len(samples) = 2

\* C6 (at-least confirmation): an at-least poll returns at the first sample
\* that is >= before + expectedDelta and at no earlier one, and it never
\* returns while every sample is below before + expectedDelta.
C6_AtLeast ==
    strategy = "at-least" =>
        /\ \A k \in 1..Len(samples) :
              samples[k] >= balBefore + amountWei =>
                  k = Len(samples) /\ ppc = "returned"
        /\ ppc = "returned" =>
              /\ samples # <<>>
              /\ Last(samples) >= balBefore + amountWei
        /\ (ppc = "thrown" /\ error # ReadError) => error = TimeoutError(label)

C6_Witness ==
    /\ strategy = "at-least"
    /\ balBefore = 100
    /\ amountWei = 50
    /\ samples = <<100, 100, 130, 151>>
    /\ ppc = "returned"

C8_ZeroDelay ==
    /\ samples = <<>> => sleeps = 0 /\ elapsed = 0
    /\ (samples # <<>> /\ ok(strategy, samples[1], balBefore, amountWei)) =>
          /\ ppc = "returned"
          /\ value = samples[1]
          /\ Len(samples) = 1
          /\ sleeps = 0

C8_Witness ==
    /\ strategy = "any-increase"
    /\ balBefore = 0
    /\ samples = <<100>>
    /\ ppc = "returned"
    /\ sleeps = 0

\* C9 (never fails silently): pollUntil returns only the value of its most
\* recent read and only when the predicate holds of it; otherwise it ends by
\* throwing the timeout or the read's error.
C9_ReturnsOnlySatisfied ==
    /\ ppc = "returned" =>
          /\ samples # <<>>
          /\ value = Last(samples)
          /\ ok(strategy, value, balBefore, amountWei)
          /\ error = NoError
    /\ ppc = "thrown" =>
          /\ value = Absent
          /\ error \in {TimeoutError(label), ReadError}
    /\ ppc \in {"read", "reading", "sleep"} => value = Absent /\ error = NoError

C9_Witness ==
    /\ ppc = "returned"
    /\ Len(samples) = 3
    /\ value = 151
    /\ strategy = "at-least"

\* C10 as stated: the timeout error carries the label, the elapsed time and
\* the last value read.
C10_TimeoutCarriesAll ==
    (ppc = "thrown" /\ error # ReadError) =>
        /\ elapsed > timeoutMs
        /\ DOMAIN error.args = {"label", "elapsed", "lastValue"}
        /\ error.args.label = label

\* C10 as amended: the timeout is thrown directly after an unsatisfied read at
\* which the elapsed time exceeds the timeout (pollUntil never goes to sleep
\* past the timeout), and the error carries the label only.
C10_TimeoutCarriesLabel ==
    /\ (ppc = "thrown" /\ error # ReadError) =>
          /\ elapsed > timeoutMs
          /\ samples # <<>>
          /\ ~ok(strategy, Last(samples), balBefore, amountWei)
          /\ error.name = "Error"
          /\ DOMAIN error.args = {"label"}
          /\ error.args.label = label
    /\ ppc = "sleep" => elapsed <= timeoutMs

C10_Witness ==
    /\ ppc = "thrown"
    /\ error = TimeoutError("credit")
    /\ timeoutMs = 3
    /\ Len(samples) = 4

\* C11 (reads are serialized and paced): at most one read of a pollUntil call
\* is outstanding; a read starts only when every earlier read has settled and,
\* after the first, a sleep has completed since; and the starts of two
\* consecutive reads are at least intervalMs apart.
C11_SerializedAndPaced ==
    /\ pending \in {0, 1}
    /\ pending = 1 <=> ppc = "reading"
    /\ Len(readAt) = Len(samples) + pending + (IF error = ReadError THEN 1 ELSE 0)
    /\ Len(readAt) <= sleeps + 1
    /\ \A k \in 2..Len(readAt) : readAt[k] - readAt[k - 1] >= intervalMs

C11_Witness ==
    /\ ppc = "reading"
    /\ intervalMs = 2
    /\ Len(readAt) = 3
    /\ readAt[3] - readAt[2] = 2

\* C12 as stated (completion requires confirmation of the last hop): a run
\* without --dry-run that exits 0 has had the destination-balance predicate of
\* every hop satisfied: its poll returned or, where the flow only reads the
\* destination balance once, that read showed an increase.
C12_CompletionNeedsLastHop ==
    (pc = "done" /\ ~input.dryRun) =>
        \A i \in Hops :
            \/ confirm[i] = "confirmed"
            \/ /\ Strategy(flow, i) = "none"
               /\ reported # <<>>
               /\ Last(reported) > 0

\* C13 (amount validation): a run in which some hop has neither its override
\* nor --amount is rejected at validation (descriptive error, exit code 1)
\* with no ledger read, no executor and no transaction; and the amount handed
\* to a hop's executor and to its poll is the override when given, otherwise
\* --amount.
C13_AmountValidation ==
    /\ (pc # "validate"
          /\ \E i \in Hops : input.override[i] = Absent /\ input.amount = Absent) =>
          /\ pc = "failed"
          /\ exitCode = 1
          /\ failure.hop = 0
          /\ failure.reason \in {"Missing token", "Missing/invalid --to", "Missing --amount"}
          /\ ~networkUsed
          /\ invoked = <<>>
          /\ txs = <<>>
    /\ \A k \in 1..Len(argv) :
          argv[k].amount = IF input.override[k] # Absent THEN input.override[k]
                                                         ELSE input.amount
    /\ (~StandAlone /\ ppc # "idle") =>
          amountWei = IF input.override[hop] # Absent THEN input.override[hop]
                                                      ELSE input.amount

C13_Witness ==
    /\ pc = "failed"
    /\ failure.reason = "Missing --amount"
    /\ input.amount = Absent
    /\ input.override[1] # Absent
    /\ input.override[3] = Absent

\* C14 (at most one execution per hop): the executors spawned in a run are
\* those of hops 1, 2, ... in order, each once; a failed executor or a failed
\* confirmation leaves the run terminated, with no executor spawned again.
C14_AtMostOnce ==
    /\ Len(invoked) <= 3
    /\ \A k \in 1..Len(invoked) : invoked[k] = Executor(flow, k)
    /\ Len(invoked) = Cardinality({i \in Hops : exec[i] # "no"})
    /\ Len(argv) = Len(invoked)
    /\ \A i \in Hops :
          (exec[i] = "failed" \/ confirm[i] \in {"timeout", "read error"}) =>
              Len(invoked) = i /\ pc \in {"settle", "failed"}

C14_Witness ==
    /\ pc = "failed"
    /\ why[3] = "tx"
    /\ Len(invoked) = 3
    /\ confirm[2] = "confirmed"

\* C15 (dry-run skips Confirming): in a run with --dry-run pollUntil is never
\* called and no balance is read between a hop's executor and the next hop
\* (no poll read, no final check).
C15_DryRunSkipsConfirming ==
    input.dryRun =>
        /\ ppc = "idle"
        /\ pc # "polling"
        /\ readAt = <<>>
        /\ \A i \in Hops : confirm[i] = "no" /\ polls[i] = 0
        /\ reported = <<>>

C15_Witness ==
    /\ input.dryRun
    /\ pc = "done"
    /\ Len(invoked) = 3
    /\ flow = "flowHypeCoreToBsc"

\* C16 as stated (dry-run reports the full plan): a validated dry-run whose
\* reads and child processes meet no endpoint, spawn or signal failure invokes
\* the executors of hops 1..3 with the arguments a real run passes plus
\* --dry-run and completes, whatever the balances on the ledgers.
C16_DryRunFullPlan ==
    (/\ input.dryRun
     /\ pc \in {"done", "failed"}
     /\ Validate(input) = NULL
     /\ failure.reason # "read error"
     /\ \A i \in Hops : why[i] \notin {"precheck", "spawn", "signal"}) =>
        /\ pc = "done"
        /\ Len(invoked) = 3
        /\ \A k \in Hops :
              /\ invoked[k] = Executor(flow, k)
              /\ argv[k] = StepArgs(flow, k, input)
              /\ argv[k].flags = {"--dry-run"}

\* C17 (exit code): a run exits with 0 exactly when validation passed, every
\* executor exited with 0 and, outside dry-run, every confirmation (poll, or
\* the final balance read) succeeded; it exits with 1 after a validation
\* failure, an executor failure, a poll timeout or a read error.
C17_ExitCode ==
    LET allOk ==
            /\ Validate(input) = NULL
            /\ \A i \in Hops : exec[i] = "exit0"
            /\ input.dryRun \/ \A i \in Hops :
                  IF Strategy(flow, i) = "none" THEN reported # <<>>
                                                 ELSE confirm[i] = "confirmed"
        anyFailure ==
            \/ Validate(input) # NULL
            \/ \E i \in Hops : exec[i] = "failed"
            \/ \E i \in Hops : confirm[i] \in {"timeout", "read error"}
            \/ failure.reason = "read error"
    IN  /\ exitCode \in {Absent, 0, 1}
        /\ exitCode = 0 <=> pc = "done"
        /\ exitCode = 1 <=> pc = "failed"
        /\ pc = "done" => allOk /\ ~anyFailure
        /\ pc = "failed" => anyFailure /\ ~allOk
        /\ (anyFailure /\ pc # "validate") => pc \in {"settle", "polling", "failed"}

C17_Witness ==
    /\ pc = "failed"
    /\ exitCode = 1
    /\ failure.reason = "executor failed"
    /\ failure.hop = 3
    /\ why[3] = "declined"

\* C18 (read errors propagate): a rejected balance read ends pollUntil at that
\* read (thrown, no value, no read started afterwards), and a read error while
\* snapshotting or polling ends the run with exit code 1 with no executor of
\* a later hop invoked.
C18_ReadErrorsPropagate ==
    /\ error = ReadError =>
          /\ ppc = "thrown"
          /\ value = Absent
          /\ pending = 0
          /\ Len(readAt) = Len(samples) + 1
          /\ pc \in {"polling", "failed"}
    /\ \A i \in Hops : confirm[i] = "read error" =>
           failure.reason = "read error" /\ failure.hop = i
    /\ failure.reason = "read error" =>
          /\ pc = "failed"
          /\ exitCode = 1
          /\ children = {}
          /\ Len(invoked) <= failure.hop
          /\ \A j \in Hops : j > failure.hop => exec[j] = "no" /\ confirm[j] = "no"

C18_Witness ==
    /\ pc = "failed"
    /\ exitCode = 1
    /\ confirm[2] = "read error"
    /\ Len(samples) = 1
    /\ Len(readAt) = 2

\* C19 as stated (no core-ledger entry is balance zero): no caller of the
\* core-ledger balance query fails because the account has no entry for the
\* token.
C19_NoEntryIsZero ==
    \A i \in Hops : why[i] # "no entry"

\* C20 as stated (end-to-end scenario): the BSC -> HyperCore run with 0.5 on
\* every hop whose polls return at the 2nd, 5th and 1st read, the last with a
\* credit of 0.4995, completes with exit code 0 and reports a final balance
\* delta of 0.4995.
C20_ScenarioReportsDelta ==
    (/\ Scenario
     /\ flow = "flowBscToHypeCore"
     /\ pc = "done"
     /\ polls = <<2, 5, 1>>
     /\ credited = 4995) =>
        /\ exitCode = 0
        /\ reported = <<4995>>

\* C20 as amended: in that run a first read of baseline + 0.4995 confirms hop
\* 3, the executors of hops 1, 2, 3 were invoked in order, each confirmed
\* before the next, and the run completes with exit code 0; the flow prints
\* no balance delta.
C20_ScenarioCompletes ==
    /\ (Scenario /\ hop = 3 /\ strategy = "tolerance" /\ samples # <<>>
          /\ samples[1] = balBefore + 4995) =>
          /\ ppc = "returned"
          /\ Len(samples) = 1
          /\ sleeps = 0
    /\ (/\ Scenario
        /\ flow = "flowBscToHypeCore"
        /\ polls = <<2, 5, 1>>
        /\ credited = 4995) =>
          /\ pc \in {"return", "done"}
          /\ pc = "done" => exitCode = 0
          /\ failure = NoFailure
          /\ invoked = <<"bscWrap", "bscToHypeEvm", "hypeEvmToHypeCore">>
          /\ \A i \in Hops : exec[i] = "exit0" /\ confirm[i] = "confirmed"
          /\ reported = <<>>

C20_Witness ==
    /\ Scenario
    /\ flow = "flowBscToHypeCore"
    /\ pc = "done"
    /\ exitCode = 0
    /\ polls = <<2, 5, 1>>
    /\ credited = 4995

Placeholders(message) ==
    CASE message = "${stepName} failed with exit code ${code}" -> {"stepName", "code"}
      [] message = "${stepName} terminated by signal: ${signal}" -> {"stepName", "signal"}
      [] message = "Timeout waiting for: ${label}" -> {"label"}
      [] OTHER -> {}

\* C22 as stated (failure report): the error reported for an executor failure
\* or a confirmation timeout at hop i identifies hop i by index or name and
\* states which earlier hops were already confirmed.
C22_ErrorStatesHopAndProgress ==
    (/\ pc = "failed"
     /\ failure.hop >= 1
     /\ failure.reason \in {"executor failed", "confirmation timeout"}) =>
        /\ \/ failure.err.stepName = Executor(flow, failure.hop)
           \/ "hop" \in Placeholders(failure.err.message)
        /\ Placeholders(failure.err.message) \ {"stepName", "code", "signal", "label"} # {}

\* C22 as amended: the error of an executor that exited non-zero or was killed
\* names the failing step's script and its exit code or signal; the error of a
\* failed spawn is the spawn error as it is; the error of a confirmation
\* timeout carries the hop's poll label and no step name. No error carries
\* anything else: the progress (every earlier hop exited 0 and, outside
\* dry-run, was confirmed) is in the run, not in the error.
C22_ErrorNamesStepOrLabel ==
    (pc = "failed" /\ failure.hop >= 1) =>
        LET i == failure.hop
            err == failure.err
        IN  /\ exitCode = 1
            /\ Placeholders(err.message) \subseteq {"stepName", "code", "signal", "label"}
            /\ failure.reason = "executor failed" =>
                  CASE why[i] = "spawn" ->
                         /\ err.stepName = ""
                         /\ Placeholders(err.message) = {}
                    [] why[i] = "signal" ->
                         /\ err.message = "${stepName} terminated by signal: ${signal}"
                         /\ err.stepName = Executor(flow, i)
                         /\ err.signal = "SIGTERM"
                    [] OTHER ->
                         /\ err.message = "${stepName} failed with exit code ${code}"
                         /\ err.stepName = Executor(flow, i)
                         /\ err.code = 1
            /\ failure.reason = "confirmation timeout" =>
                  /\ err.message = "Timeout waiting for: ${label}"
                  /\ err.label = Label(flow, i)
                  /\ err.stepName = ""
                  /\ exec[i] = "exit0"
            /\ \A j \in Hops : j < i =>
                  /\ exec[j] = "exit0"
                  /\ input.dryRun \/ confirm[j] = "confirmed"

C22_Witness ==
    /\ pc = "failed"
    /\ failure.hop = 2
    /\ failure.reason = "confirmation timeout"
    /\ failure.err.label = Label(flow, 2)
    /\ confirm[1] = "confirmed"

\* the transactions a sequence of submissions holds
Submitted(q) == {q[k] : k \in 1..Len(q)}

C24_YesSkipsAllPrompts ==
    input.yes => prompted = {}

\* the state-changing transaction of a hop's executor
MainTx(f, i) ==
    IF f = "flowBscToHypeCore"
      THEN <<"wrap", "send", "transfer">>[i]
      ELSE <<"spotSend", "send", "unwrap">>[i]

\* C25 (every step asks): in a flow run started without --yes, the transaction
\* of a step is submitted only after that step asked the operator (and was
\* answered YES).
C25_EveryStepAsks ==
    (flow \in Flows /\ ~input.yes) =>
        \A i \in Hops :
            MainTx(flow, i) \in Submitted(txs) => i \in prompted

\* C26 (--to of hypeCoreToHypeEvm): a spotSend of hypeCoreToHypeEvm credits
\* the address given with --to when the option is there, and the caller's own
\* address when it is not.
C26_DeliversToGivenAddress ==
    (/\ pc = "exited"
     /\ result.fn = "hypeCoreToHypeEvm"
     /\ "spotSend" \in Submitted(txs)) =>
        result.out.recipient = IF argv[1].to.form # "absent"
                                 THEN argv[1].to.account
                                 ELSE privateKeyToAccount.account

\* the value of a hex digit
DigitValue(c) == CHOOSE d \in 0..15 : HexDigits[d + 1] = c

\* the k-th hex digit of str counted from its end (0 beyond its start)
Nibble(str, k) == IF k <= Len(str) THEN DigitValue(str[Len(str) - k + 1]) ELSE 0

\* the number a string of hex digits denotes, on the two halves; a non-zero
\* digit above the eighth puts the high half beyond 16 bits
FromHex(str) ==
    Wide(Nibble(str, 5) + 16 * Nibble(str, 6) + 256 * Nibble(str, 7)
           + 4096 * Nibble(str, 8)
           + 65536 * Cardinality({k \in 9..Len(str) : Nibble(str, k) # 0}),
         Nibble(str, 1) + 16 * Nibble(str, 2) + 256 * Nibble(str, 3)
           + 4096 * Nibble(str, 4))

Zeros(k) == [i \in 1..k |-> "0"]

\* C27 (asset bridge address): for a token index in 0..2^32-1 the address has
\* exactly 42 characters, starts with "0x2", and its other 39 characters are
\* hex digits that denote the token index, left-padded with zeros (409 gives
\* 0x2 000...0 199); two different token indices give two different addresses.
C27_AssetBridgeAddress ==
    pc = "returned" =>
        /\ \A k \in 1..2 :
              LET tokenIndex == result.in[k]
                  address == result.out[k]
                  rest == SubSeq(address, 4, Len(address))
              IN  /\ Len(address) = 42
                  /\ SubSeq(address, 1, 3) = <<"0", "x", "2">>
                  /\ Len(rest) = 39
                  /\ \A c \in 1..39 : \E d \in 1..16 : rest[c] = HexDigits[d]
                  /\ FromHex(rest) = tokenIndex
                  /\ tokenIndex = Wide(0, 409) =>
                        address = <<"0", "x", "2">> \o Zeros(36) \o <<"1", "9", "9">>
        /\ result.in[1] # result.in[2] => result.out[1] # result.out[2]

C27_Witness ==
    /\ pc = "returned"
    /\ result.in = <<Wide(0, 409), Wide(65535, 65535)>>
    /\ result.out[1] = <<"0", "x", "2">> \o Zeros(36) \o <<"1", "9", "9">>
    /\ result.out[2] = <<"0", "x", "2">> \o Zeros(31)
                          \o <<"f", "f", "f", "f", "f", "f", "f", "f">>

\* C28 (progress reporting is observability only): a waiting line shows the
\* very value the read handed to the predicate, there is at most one line per
\* read and none where the read closure has no reporter, and the reads keep
\* their spacing; a line is printed only for a read below the expected
\* balance; two consecutive lines with the same balance are more than one
\* reporting window (5 s for the HyperEVM credit, 10 s for the BSC credit)
\* apart; a read below the expected balance whose value differs from the read
\* before it (and the first read) gets its line at once.
C28_ReporterObservesOnly ==
    LET expected == expectedAtLeast(balBefore, amountWei)
    IN  /\ window = 0 => lines = <<>>
        /\ flow \in Flows => window = (IF hop \in Hops /\ ppc # "idle"
                                         THEN Window(flow, hop) ELSE window)
        /\ Len(lines) <= Len(samples)
        /\ \A k \in 1..Len(lines) :
              /\ lines[k].read \in 1..Len(samples)
              /\ samples[lines[k].read] = lines[k].bal
              /\ lines[k].bal < expected
        /\ \A k \in 2..Len(lines) :
              /\ lines[k].read > lines[k - 1].read
              /\ \/ lines[k].bal # lines[k - 1].bal
                 \/ lines[k].at - lines[k - 1].at > window
        /\ window # 0 =>
              \A r \in 1..Len(samples) :
                  (samples[r] < expected /\ (r = 1 \/ samples[r] # samples[r - 1])) =>
                      \E k \in 1..Len(lines) : lines[k].read = r
        /\ \A r \in 2..Len(readAt) : readAt[r] - readAt[r - 1] >= intervalMs
        /\ \A r \in 1..Len(samples) : r < Len(samples) => ~ok(strategy, samples[r], balBefore, amountWei)

C28_Witness ==
    /\ flow = "flowHypeCoreToBsc"
    /\ hop = 2
    /\ window = 10000
    /\ Len(samples) = 5
    /\ Len(lines) = 3
    /\ lines[1].read = 1
    /\ lines[2].read = 4
    /\ lines[2].bal = lines[1].bal
    /\ lines[2].at - lines[1].at = 15000
    /\ lines[3].read = 5
    /\ lines[3].bal # lines[2].bal

\* C29 (the deadline is looked at only after an unsatisfied read): pollUntil
\* ends only after at least one read, also with timeout 0; once a read
\* satisfies the predicate the call has returned that value, however long
\* after the timeout the read completed; the timeout error exists only
\* directly after a read that did not satisfy the predicate and at which the
\* elapsed time was strictly greater than the timeout; a sleep is entered only
\* within the timeout and ends in the next read, never in the error.
C29_DeadlineAfterUnsatisfiedRead ==
    /\ ppc \in {"returned", "thrown"} => Len(readAt) >= 1
    /\ (samples # <<>> /\ ok(strategy, Last(samples), balBefore, amountWei)) =>
          /\ ppc = "returned"
          /\ value = Last(samples)
          /\ error = NoError
    /\ error = TimeoutError(label) =>
          /\ ppc = "thrown"
          /\ samples # <<>>
          /\ Len(readAt) = Len(samples)
          /\ pending = 0
          /\ ~ok(strategy, Last(samples), balBefore, amountWei)
          /\ elapsed > timeoutMs
    /\ ppc = "sleep" =>
          /\ error = NoError
          /\ samples # <<>>
          /\ elapsed <= timeoutMs
    /\ (ppc \in {"read", "reading"} /\ samples # <<>>) =>
          /\ error = NoError
          /\ elapsed >= intervalMs

C29_Witness ==
    /\ StandAlone
    /\ ppc = "returned"
    /\ Len(samples) >= 2
    /\ elapsed > timeoutMs
    /\ timeoutMs > 0

\* C30 (no confirmation without an observed increase): whatever the strategy,
\* a poll for a positive amount of raw units returns only a balance above the
\* baseline; the predicate is false for a balance equal to the baseline.
C30_NoConfirmationWithoutIncrease ==
    (ppc = "returned" /\ (strategy = "any-increase" \/ amountWei > 0)) =>
        /\ ~ok(strategy, balBefore, balBefore, amountWei)
        /\ value > balBefore

\* C31 (registry checks come first): in the HyperCore -> BSC flow every check
\* that needs only the command line, the environment and the token registry,
\* the check for the token's BSC underlying address among them, is made
\* before the executor of hop 1 is invoked.
C31_RegistryChecksBeforeHop1 ==
    flow = "flowHypeCoreToBsc" =>
        \A k \in 1..Len(checked) : checked[k].after = 0

\* C32 (runStep settles once): the promise of a runStep call is settled by the
\* first event of its child and by nothing else: resolved exactly when that
\* event is an exit with code 0 and no signal; rejected with an error that
\* names the step and the signal or the exit code when it is an exit by signal
\* or with another code; rejected with the spawn error as it is when it is
\* 'error'. The event that comes second changes nothing, before or after
\* runStep has returned or thrown.
C32_SettlesOnce ==
    pc \in {"child", "resolved", "rejected"} =>
        LET events == result.in
            p == result.out
            stepName == invoked[1]
        IN  /\ p.settled = (IF events = <<>> THEN 0 ELSE 1)
            /\ p.state = "pending" <=> events = <<>>
            /\ pc \in {"resolved", "rejected"} => p.state = pc
            /\ events # <<>> =>
                  LET x == events[1]
                  IN  /\ p.state = "resolved" <=>
                            (x.error = NULL /\ x.signal = NULL /\ x.code = 0)
                      /\ p.state = "resolved" => p.err = NoFailure.err
                      /\ (x.error = NULL /\ x.signal # NULL) =>
                            /\ p.err.message = "${stepName} terminated by signal: ${signal}"
                            /\ p.err.stepName = stepName
                            /\ p.err.signal = x.signal
                      /\ (x.error = NULL /\ x.signal = NULL /\ x.code # 0) =>
                            /\ p.err.message = "${stepName} failed with exit code ${code}"
                            /\ p.err.stepName = stepName
                            /\ p.err.code = x.code
                      /\ x.error # NULL =>
                            /\ p.state = "rejected"
                            /\ p.err.stepName = ""
                            /\ Placeholders(p.err.message) = {}

C32_Witness ==
    /\ flow = "runStep"
    /\ pc = "rejected"
    /\ Len(result.in) = 2
    /\ result.in[1].error = "spawn"
    /\ result.in[2].code = 0
    /\ result.out.state = "rejected"
    /\ result.out.settled = 1

\* C33 (termination): when every read returns or throws, every sleep
\* completes and every child exits, every run reaches a terminal state,
\* completed or failed, and every pollUntil call that has started returns or
\* throws.
C33_Terminates ==
    /\ <>(pc \in {"done", "failed"})
    /\ [](ppc \in {"read", "reading", "sleep"} => <>(ppc \in {"returned", "thrown"}))

\* a poll whose credit never arrived slept its way to the deadline
C33_Witness ==
    /\ Live
    /\ pc = "failed"
    /\ failure.reason = "confirmation timeout"
    /\ failure.hop = 2
    /\ sleeps = MaxLiveSleeps + 1
    /\ Len(samples) = MaxLiveSleeps + 2
    /\ \A r \in 1..Len(samples) : samples[r] = 0
    /\ elapsed = (MaxLiveSleeps + 1) * intervalMs

\* C34 (approve before send): bscToHypeEvm submits an approve only after
\* approvalRequired was read as true (a read that threw counts as false) and the
\* allowance was read below the amount; once the send is submitted the receipt
\* of that approve has been awaited; an allowance that covers the amount
\* leaves no approve behind.
C34_ApproveOnlyWhenNeededThenSend ==
    flow = "bscToHypeEvm" =>
        /\ (\E k \in 1..Len(txs) : txs[k] = "approve") =>
              /\ result.out.approvalRead = "true"
              /\ result.out.allowance # Absent
              /\ result.out.allowance < argv[1].amount
        /\ result.out.approvalRead \in {"false", "throws"} => ~result.out.approvalRequired
        /\ (result.out.allowance # Absent /\ result.out.allowance >= argv[1].amount) =>
              \A k \in 1..Len(txs) : txs[k] # "approve"
        /\ \A k \in 1..Len(txs) :
              txs[k] = "send" =>
                /\ \A j \in 1..Len(txs) : txs[j] = "approve" => j < k
                /\ (\E j \in 1..Len(txs) : txs[j] = "approve") =>
                      \E j \in 1..Len(result.out.receipts) :
                          result.out.receipts[j] = "approve"
                /\ result.out.approvalRequired =>
                      result.out.allowance >= argv[1].amount
                      \/ \E j \in 1..Len(result.out.receipts) :
                             result.out.receipts[j] = "approve"

\* the approve was needed, was mined, and the send followed it
C34_Witness ==
    /\ flow = "bscToHypeEvm"
    /\ pc = "awaitSend"
    /\ result.out.approvalRead = "true"
    /\ result.out.allowance = 0
    /\ txs = <<"approve", "send">>
    /\ result.out.receipts = <<"approve">>

\* C35 (guarded transfer): hypeEvmToHypeCore submits its transfer only when
\* the RPC reported chain id 999, the token was given as a registered name,
\* --dry-run is absent, the operator confirmed with --yes or by typing YES,
\* and the balance read beforehand covers the amount; in every other case it
\* exits having submitted nothing.
C35_TransferOnlyWhenAllHold ==
    (flow = "hypeEvmToHypeCore" /\ pc = "exited") =>
        /\ txs \in {<<>>, <<"transfer">>}
        /\ txs # <<>> =>
              /\ result.in.chainId = 999
              /\ result.in.token \in {"CRCLd", "crcld"}
              /\ "--dry-run" \notin result.in.flags
              /\ "--yes" \in result.in.flags \/ result.in.answerYes
              /\ result.in.balance >= result.in.amount

\* the transfer goes out when the balance just covers the amount and the
\* operator typed YES
C35_Witness ==
    /\ flow = "hypeEvmToHypeCore"
    /\ pc = "exited"
    /\ txs = <<"transfer">>
    /\ result.in.flags = {}
    /\ result.in.answerYes
    /\ result.in.balance = result.in.amount
    /\ exitCode = 0

\* C36 (no transaction without balance): a wrap or unwrap script that found
\* the caller's balance of the consumed asset below the amount has submitted
\* no transaction at all, whatever --prepare-compliance and the compliance
\* flags are.
C36_NoTxWithoutBalance ==
    (flow = "script" /\ pc = "exited"
       /\ result.fn \in {"bscWrap", "bscUnwrap"} /\ ~result.in.balOk) =>
        txs = <<>>

\* the words of a command line that are neither empty, nor a flag, nor the
\* word right after a value-taking flag, in order
IsPositional(args, i) ==
    /\ args[i] # ""
    /\ ~startsWithDash(args[i])
    /\ ~(i > 1 /\ args[i - 1] \in ValueFlags)

\* C37 (positional arguments): getPositionalArg(n) returns the n-th word that
\* is neither a flag nor the value of a value-taking flag, and nothing when
\* there are fewer such words; a token name is found as positional 0 whether
\* it stands before or after --dry-run and --yes.
C37_NthNonFlagArgument ==
    (flow = "getPositionalArg" /\ pc = "returned") =>
        LET args == result.in.argv
            n    == result.in.index
            at   == {i \in 1..Len(args) : IsPositional(args, i)}
            nth  == {i \in at : Cardinality({j \in at : j < i}) = n}
        IN  IF nth = {} THEN result.out = NULL
                        ELSE \A i \in nth : result.out = args[i]

====
